---- MODULE Spec2Model ----
(***************************************************************************)
(* A model of the Workflow / Node builder of the n8n Python SDK            *)
(* (src/n8n_python_sdk/workflow.py, node.py, exceptions.py) and of the     *)
(* document reader (utils/json_parser.py).                                 *)
(*                                                                         *)
(* Python values are represented as follows.                               *)
(*   str used as a name or type : a sequence of characters, so that        *)
(*                                str.strip() is computed, not assumed     *)
(*   str used as an id          : a TLA+ string; "" is the empty string    *)
(*   None (id position)         : the string NoneId                        *)
(*   Optional[X] argument       : <<>> for None, <<x>> for a value x       *)
(*   dict with computed keys    : an association list, a sequence of       *)
(*                                [k |-> key, v |-> value] in insertion    *)
(*                                order (Python dicts keep that order)     *)
(*   opaque dict payload        : a TLA+ record                            *)
(*   list                       : a sequence                               *)
(***************************************************************************)
EXTENDS Integers, Sequences, FiniteSets, TLC

(***************************************************************************)
(* Bounds of the model.                                                    *)
(***************************************************************************)
MaxNodes == 3
MaxRecords == 2
MaxClock == 1
MaxFiles == 2

(***************************************************************************)
(* Error codes (exceptions.py, class ErrorCodes).                          *)
(***************************************************************************)
WORKFLOW_INVALID_NAME == "WF001"
WORKFLOW_DUPLICATE_NODE == "WF003"
NODE_INVALID_TYPE == "ND001"
NODE_MISSING_REQUIRED_FIELD == "ND003"
CONNECTION_SOURCE_NOT_FOUND == "CN001"
CONNECTION_TARGET_NOT_FOUND == "CN002"
EXPORT_FILE_ERROR == "EX001"
EXPORT_SERIALIZATION_ERROR == "EX002"
EXPORT_VALIDATION_ERROR == "EX003"

\* SDKError.__init__: an exception carries its class and an optional code
\* (code = None is the string "None").
NoCode == "None"
SDKError(class, code) == [class |-> class, code |-> code]
NoErr == [class |-> "None", code |-> NoCode]

(***************************************************************************)
(* Strings.                                                                *)
(***************************************************************************)
RECURSIVE LStrip(_)
LStrip(s) ==
    IF s = <<>> THEN s
    ELSE IF Head(s) = " " THEN LStrip(Tail(s)) ELSE s

RECURSIVE RStrip(_)
RStrip(s) ==
    IF s = <<>> THEN s
    ELSE IF s[Len(s)] = " " THEN RStrip(SubSeq(s, 1, Len(s) - 1)) ELSE s

\* str.strip()
Strip(s) == RStrip(LStrip(s))

\* `not s or not s.strip()`
Blank(s) == s = <<>> \/ Strip(s) = <<>>

NoneId == "None"
\* truthiness of an id argument: None and "" are falsy
TruthyId(i) == i # NoneId /\ i # ""

(***************************************************************************)
(* Association lists (Python dicts with insertion order).                  *)
(***************************************************************************)
EmptyDict == <<>>
Keys(d) == {d[i].k : i \in 1..Len(d)}
Has(d, key) == key \in Keys(d)
IndexOf(d, key) == CHOOSE i \in 1..Len(d) : d[i].k = key
Get(d, key) == d[IndexOf(d, key)].v
\* d[key] = val : replaces in place, or appends a new key at the end
Put(d, key, val) ==
    IF Has(d, key)
    THEN [d EXCEPT ![IndexOf(d, key)] = [k |-> key, v |-> val]]
    ELSE Append(d, [k |-> key, v |-> val])
\* dict == dict ignores the order of the keys
DictEq(d, e) ==
    /\ Len(d) = Len(e)
    /\ Keys(d) = Keys(e)
    /\ \A key \in Keys(d) : Get(d, key) = Get(e, key)

Range(s) == {s[i] : i \in 1..Len(s)}

(***************************************************************************)
(* Node (node.py).                                                         *)
(***************************************************************************)
\* A JSON payload value that json cannot encode (a Python set, say).
NotJson == "#set"

\* Node.__init__ checking the name before the type
NodeInit_name_first(node_type, name, node_id, type_version, parameters, position, credentials, fresh) ==
    IF Blank(name)
    THEN [ok |-> FALSE,
          err |-> SDKError("NodeError", NODE_MISSING_REQUIRED_FIELD)]
    ELSE IF Blank(node_type)
    THEN [ok |-> FALSE, err |-> SDKError("NodeError", NODE_INVALID_TYPE)]
    ELSE [ok |-> TRUE,
          err |-> NoErr,
          node |->
            [id |-> IF TruthyId(node_id) THEN node_id ELSE fresh,
             type |-> Strip(node_type),
             name |-> Strip(name),
             type_version |-> type_version,
             parameters |->
                IF parameters = <<>> \/ DOMAIN parameters[1] = {}
                THEN [x \in {} |-> ""] ELSE parameters[1],
             position |->
                IF position = <<>> \/ position[1] = <<>>
                THEN <<0, 0>> ELSE position[1],
             credentials |->
                IF credentials = <<>> \/ DOMAIN credentials[1] = {}
                THEN [x \in {} |-> ""] ELSE credentials[1]]]

\* Node.__init__; fresh is the value str(uuid.uuid4()) returns.
NodeInit(node_type, name, node_id, type_version, parameters, position, credentials, fresh) ==
    IF Blank(node_type)
    THEN [ok |-> FALSE, err |-> SDKError("NodeError", NODE_INVALID_TYPE)]
    ELSE IF Blank(name)
    THEN [ok |-> FALSE,
          err |-> SDKError("NodeError", NODE_MISSING_REQUIRED_FIELD)]
    ELSE [ok |-> TRUE,
          err |-> NoErr,
          node |->
            [id |-> IF TruthyId(node_id) THEN node_id ELSE fresh,
             type |-> Strip(node_type),
             name |-> Strip(name),
             type_version |-> type_version,
             parameters |->
                IF parameters = <<>> \/ DOMAIN parameters[1] = {}
                THEN [x \in {} |-> ""] ELSE parameters[1],
             position |->
                IF position = <<>> \/ position[1] = <<>>
                THEN <<0, 0>> ELSE position[1],
             credentials |->
                IF credentials = <<>> \/ DOMAIN credentials[1] = {}
                THEN [x \in {} |-> ""] ELSE credentials[1]]]

\* Node.__eq__: equality is by id alone
NodeEq(m, n) == m.id = n.id

\* `node in nodes` for a list of Node: some element == node
InNodes(nodes, n) == \E i \in 1..Len(nodes) : NodeEq(nodes[i], n)

\* isinstance(x, Node): a Node has the attributes __init__ sets
IsNode(x) == "id" \in DOMAIN x

\* Node.to_dict
Node_to_dict(n) ==
    [id |-> n.id, name |-> n.name, type |-> n.type,
     typeVersion |-> n.type_version, position |-> n.position,
     parameters |-> n.parameters]
    @@ (IF DOMAIN n.credentials # {}
        THEN [credentials |-> n.credentials] ELSE <<>>)

\* dict.get(key, default)
DGet(d, key, default) == IF key \in DOMAIN d THEN d[key] ELSE default

\* Node.from_dict reading the position from a key the fragment lacks
Node_from_dict_pos_key(data, fresh) ==
    NodeInit(DGet(data, "type", <<>>), DGet(data, "name", <<>>),
             DGet(data, "id", NoneId), DGet(data, "typeVersion", 1),
             <<DGet(data, "parameters", <<>>)>>,
             <<DGet(data, "pos", <<0, 0>>)>>,
             <<DGet(data, "credentials", <<>>)>>, fresh)

\* Node.from_dict setting the fields without the constructor's checks
Node_from_dict_lenient(data, fresh) ==
    [ok |-> TRUE,
     err |-> NoErr,
     node |->
       [id |-> IF TruthyId(DGet(data, "id", NoneId))
               THEN DGet(data, "id", NoneId) ELSE fresh,
        type |-> Strip(DGet(data, "type", <<>>)),
        name |-> Strip(DGet(data, "name", <<>>)),
        type_version |-> DGet(data, "typeVersion", 1),
        parameters |-> DGet(data, "parameters", <<>>),
        position |-> DGet(data, "position", <<0, 0>>),
        credentials |-> DGet(data, "credentials", <<>>)]]

\* Node.from_dict: calls the constructor on the fragment's fields
Node_from_dict(data, fresh) ==
    NodeInit(DGet(data, "type", <<>>), DGet(data, "name", <<>>),
             DGet(data, "id", NoneId), DGet(data, "typeVersion", 1),
             <<DGet(data, "parameters", <<>>)>>,
             <<DGet(data, "position", <<0, 0>>)>>,
             <<DGet(data, "credentials", <<>>)>>, fresh)

\* Node.validate asking for a position of three numbers
Node_validate_xyz(n) ==
    (IF ~TruthyId(n.id) THEN <<"Node ID is required">> ELSE <<>>)
    \o (IF n.name = <<>> THEN <<"Node name is required">> ELSE <<>>)
    \o (IF n.type = <<>> THEN <<"Node type is required">> ELSE <<>>)
    \o (IF Len(n.position) # 3
        THEN <<"Position must be a list of 2 numbers">> ELSE <<>>)

\* Node.validate: the list of problems of one node.  In this model
\* type_version is a number and parameters and credentials are mappings, so
\* those three checks never add a problem; position elements are numbers.
Node_validate(n) ==
    (IF ~TruthyId(n.id) THEN <<"Node ID is required">> ELSE <<>>)
    \o (IF n.name = <<>> THEN <<"Node name is required">> ELSE <<>>)
    \o (IF n.type = <<>> THEN <<"Node type is required">> ELSE <<>>)
    \o (IF Len(n.position) # 2
        THEN <<"Position must be a list of 2 numbers">> ELSE <<>>)

\* Node.is_valid
Node_is_valid(n) == Len(Node_validate(n)) = 0

(***************************************************************************)
(* Workflow (workflow.py).                                                 *)
(***************************************************************************)
\* Workflow.__init__
WorkflowInit(name, workflow_id, fresh, now) ==
    IF Blank(name)
    THEN [ok |-> FALSE,
          err |-> SDKError("WorkflowError", WORKFLOW_INVALID_NAME)]
    ELSE [ok |-> TRUE,
          err |-> NoErr,
          w |-> [id |-> IF TruthyId(workflow_id) THEN workflow_id ELSE fresh,
                 name |-> Strip(name),
                 nodes |-> <<>>,
                 connections |-> EmptyDict,
                 active |-> TRUE,
                 settings |-> <<>>,
                 tags |-> <<>>,
                 created_at |-> now,
                 updated_at |-> now]]

\* add_node without its duplicate-id check
add_node_unchecked(w, node, now) ==
    [w |-> [w EXCEPT !.nodes = Append(@, node), !.updated_at = now],
     err |-> NoErr]

\* add_node with the duplicate check made on the name instead of the id
add_node_by_name(w, node, now) ==
    IF ~IsNode(node)
    THEN [w |-> w, err |-> SDKError("WorkflowError", NODE_INVALID_TYPE)]
    ELSE IF \E i \in 1..Len(w.nodes) : w.nodes[i].name = node.name
    THEN [w |-> w, err |-> SDKError("WorkflowError", WORKFLOW_DUPLICATE_NODE)]
    ELSE [w |-> [w EXCEPT !.nodes = Append(@, node), !.updated_at = now],
          err |-> NoErr]

\* add_node refusing a node whose name a node of the workflow has
add_node_unique_names(w, node, now) ==
    IF ~IsNode(node)
    THEN [w |-> w, err |-> SDKError("WorkflowError", NODE_INVALID_TYPE)]
    ELSE IF \E i \in 1..Len(w.nodes) :
               w.nodes[i].id = node.id \/ w.nodes[i].name = node.name
    THEN [w |-> w, err |-> SDKError("WorkflowError", WORKFLOW_DUPLICATE_NODE)]
    ELSE [w |-> [w EXCEPT !.nodes = Append(@, node), !.updated_at = now],
          err |-> NoErr]

\* add_node leaving updated_at as it was
add_node_unstamped(w, node, now) ==
    IF ~IsNode(node)
    THEN [w |-> w, err |-> SDKError("WorkflowError", NODE_INVALID_TYPE)]
    ELSE IF \E i \in 1..Len(w.nodes) : w.nodes[i].id = node.id
    THEN [w |-> w, err |-> SDKError("WorkflowError", WORKFLOW_DUPLICATE_NODE)]
    ELSE [w |-> [w EXCEPT !.nodes = Append(@, node)], err |-> NoErr]

\* Workflow.add_node.  A node with a name already present is added too: the
\* code only logs a warning for it.
add_node(w, node, now) ==
    IF ~IsNode(node)
    THEN [w |-> w, err |-> SDKError("WorkflowError", NODE_INVALID_TYPE)]
    ELSE IF \E i \in 1..Len(w.nodes) : w.nodes[i].id = node.id
    THEN [w |-> w, err |-> SDKError("WorkflowError", WORKFLOW_DUPLICATE_NODE)]
    ELSE [w |-> [w EXCEPT !.nodes = Append(@, node), !.updated_at = now],
          err |-> NoErr]

\* the checks of add_node without the one on the id
add_node_checks_type_only(w, node) ==
    IF ~IsNode(node) THEN SDKError("WorkflowError", NODE_INVALID_TYPE)
    ELSE NoErr

\* Workflow.add_node up to its append: the exception its checks raise on
\* the list as it is when they read it
add_node_checks(w, node) == add_node(w, node, w.updated_at).err

\* add_nodes taking back the nodes it added when a later one fails
RECURSIVE add_nodes_rollback(_, _, _)
add_nodes_rollback(w, ns, now) ==
    IF ns = <<>> THEN [w |-> w, err |-> NoErr]
    ELSE LET r == add_node(w, Head(ns), now)
             rest == add_nodes_rollback(r.w, Tail(ns), now)
         IN  IF r.err # NoErr THEN r
             ELSE IF rest.err # NoErr THEN [w |-> w, err |-> rest.err]
             ELSE rest

\* Workflow.add_nodes: add_node on each argument in order; the first
\* exception leaves the loop and propagates.
RECURSIVE add_nodes(_, _, _)
add_nodes(w, ns, now) ==
    IF ns = <<>> THEN [w |-> w, err |-> NoErr]
    ELSE LET r == add_node(w, Head(ns), now)
         IN  IF r.err # NoErr THEN r ELSE add_nodes(r.w, Tail(ns), now)

\* Grow with `<` for `<=`: one slot short
RECURSIVE GrowShort(_, _)
GrowShort(slots, output_index) ==
    IF Len(slots) < output_index
    THEN GrowShort(Append(slots, <<>>), output_index) ELSE slots

\* `while len(slots) <= output_index: slots.append([])`
RECURSIVE Grow(_, _)
Grow(slots, output_index) ==
    IF Len(slots) <= output_index
    THEN Grow(Append(slots, <<>>), output_index) ELSE slots

\* list[index] in Python: the 1-based position, or 0 for an IndexError
PyIndex(lst, index) ==
    LET p == IF index >= 0 THEN index + 1 ELSE Len(lst) + index + 1
    IN  IF p >= 1 /\ p <= Len(lst) THEN p ELSE 0

\* the membership checks of connect with the target looked up first
check_ends_target_first(ns, from_node, to_node) ==
    IF ~InNodes(ns, to_node)
    THEN SDKError("WorkflowError", CONNECTION_TARGET_NOT_FOUND)
    ELSE IF ~InNodes(ns, from_node)
    THEN SDKError("WorkflowError", CONNECTION_SOURCE_NOT_FOUND)
    ELSE NoErr

\* Workflow.connect, "Verify both nodes are in the workflow": the exception
\* raised, NoErr when both are
check_ends(ns, from_node, to_node) ==
    IF ~InNodes(ns, from_node)
    THEN SDKError("WorkflowError", CONNECTION_SOURCE_NOT_FOUND)
    ELSE IF ~InNodes(ns, to_node)
    THEN SDKError("WorkflowError", CONNECTION_TARGET_NOT_FOUND)
    ELSE NoErr

\* seeding without the `not in self.connections` test
seed_target_always(c, target_name) ==
    Put(c, target_name, <<[k |-> "main", v |-> << <<>> >>]>>)

\* connect without the placeholder for its target
seed_target_skipped(c, target_name) == c

\* Workflow.connect, "Ensure target node has empty connection placeholder"
seed_target(c, target_name) ==
    IF Has(c, target_name) THEN c
    ELSE Put(c, target_name, <<[k |-> "main", v |-> << <<>> >>]>>)

\* connect leaving out a record its slot already holds
connect_deduplicating(w, from_node, to_node, output_type, input_type, output_index, input_index, now) ==
    IF check_ends(w.nodes, from_node, to_node) # NoErr
    THEN [w |-> w, err |-> check_ends(w.nodes, from_node, to_node)]
    ELSE
    LET source_name == from_node.name
        c1 == IF Has(w.connections, source_name) THEN w.connections
              ELSE Put(w.connections, source_name, EmptyDict)
        p1 == Get(c1, source_name)
        p2 == IF Has(p1, output_type) THEN p1 ELSE Put(p1, output_type, <<>>)
        slots == Grow(Get(p2, output_type), output_index)
        at == PyIndex(slots, output_index)
        connection == [node |-> to_node.name, type |-> input_type,
                       index |-> input_index]
        target_name == to_node.name
    IN  IF at = 0
        THEN [w |-> [w EXCEPT !.connections =
                        Put(c1, source_name, Put(p2, output_type, slots))],
              err |-> SDKError("IndexError", NoCode)]
        ELSE LET c2 == Put(c1, source_name,
                           Put(p2, output_type,
                               [slots EXCEPT ![at] =
                                   IF connection \in Range(@) THEN @
                                   ELSE Append(@, connection)]))
                 c3 == seed_target(c2, target_name)
             IN  [w |-> [w EXCEPT !.connections = c3, !.updated_at = now],
                  err |-> NoErr]

\* Workflow.connect
connect(w, from_node, to_node, output_type, input_type, output_index, input_index, now) ==
    IF check_ends(w.nodes, from_node, to_node) # NoErr
    THEN [w |-> w, err |-> check_ends(w.nodes, from_node, to_node)]
    ELSE
    LET source_name == from_node.name
        c1 == IF Has(w.connections, source_name) THEN w.connections
              ELSE Put(w.connections, source_name, EmptyDict)
        p1 == Get(c1, source_name)
        p2 == IF Has(p1, output_type) THEN p1 ELSE Put(p1, output_type, <<>>)
        slots == Grow(Get(p2, output_type), output_index)
        at == PyIndex(slots, output_index)
        connection == [node |-> to_node.name, type |-> input_type,
                       index |-> input_index]
        target_name == to_node.name
    IN  IF at = 0
        THEN \* slots[output_index] raises IndexError after the entries for
             \* the source and the port type were created
             [w |-> [w EXCEPT !.connections =
                        Put(c1, source_name, Put(p2, output_type, slots))],
              err |-> SDKError("IndexError", NoCode)]
        ELSE LET c2 == Put(c1, source_name,
                           Put(p2, output_type,
                               [slots EXCEPT ![at] = Append(@, connection)]))
                 c3 == seed_target(c2, target_name)
             IN  [w |-> [w EXCEPT !.connections = c3, !.updated_at = now],
                  err |-> NoErr]

\* Workflow.validate, the connection part: the records of one slot
RECURSIVE GroupErrors(_, _)
GroupErrors(output_group, node_names_set) ==
    IF output_group = <<>> THEN <<>>
    ELSE LET connection == Head(output_group)
         IN  (IF "node" \in DOMAIN connection
                 /\ connection.node \notin node_names_set
              THEN << <<"Connection target does not exist", connection.node>> >>
              ELSE <<>>)
             \o GroupErrors(Tail(output_group), node_names_set)

\* ... the slots of one output type
RECURSIVE GroupsErrors(_, _)
GroupsErrors(output_groups, node_names_set) ==
    IF output_groups = <<>> THEN <<>>
    ELSE GroupErrors(Head(output_groups), node_names_set)
         \o GroupsErrors(Tail(output_groups), node_names_set)

\* ... the output types of one source (outputs.items())
RECURSIVE OutputsErrors(_, _)
OutputsErrors(outputs, node_names_set) ==
    IF outputs = <<>> THEN <<>>
    ELSE GroupsErrors(Head(outputs).v, node_names_set)
         \o OutputsErrors(Tail(outputs), node_names_set)

\* ... the sources (self.connections.items())
RECURSIVE ConnectionsErrors(_, _)
ConnectionsErrors(conns, node_names_set) ==
    IF conns = <<>> THEN <<>>
    ELSE (IF Head(conns).k \notin node_names_set
          THEN << <<"Connection source does not exist", Head(conns).k>> >>
          ELSE <<>>)
         \o OutputsErrors(Head(conns).v, node_names_set)
         \o ConnectionsErrors(Tail(conns), node_names_set)

\* ... the per-node part: f"Node {i+1} ({node.name}): {error}"
RECURSIVE NodesErrors(_, _)
NodesErrors(nodes, i) ==
    IF i > Len(nodes) THEN <<>>
    ELSE [j \in 1..Len(Node_validate(nodes[i])) |->
            <<"Node", i, nodes[i].name, Node_validate(nodes[i])[j]>>]
         \o NodesErrors(nodes, i + 1)

\* Workflow.validate returning at the first problem it finds
validate_first_problem(w) ==
    LET all ==
          (IF w.name = <<>> THEN << <<"Workflow name is required">> >> ELSE <<>>)
          \o (IF w.nodes = <<>>
              THEN << <<"Workflow must contain at least one node">> >>
              ELSE <<>>)
          \o (IF Len(w.nodes)
                   # Cardinality({w.nodes[i].id : i \in 1..Len(w.nodes)})
              THEN << <<"Duplicate node IDs found">> >> ELSE <<>>)
          \o (IF Len(w.nodes)
                   # Cardinality({w.nodes[i].name : i \in 1..Len(w.nodes)})
              THEN << <<"Duplicate node names found">> >> ELSE <<>>)
          \o NodesErrors(w.nodes, 1)
          \o ConnectionsErrors(w.connections,
                               {w.nodes[i].name : i \in 1..Len(w.nodes)})
    IN  IF all = <<>> THEN <<>> ELSE <<all[1]>>

\* Workflow.validate
validate(w) ==
    (IF w.name = <<>> THEN << <<"Workflow name is required">> >> ELSE <<>>)
    \o (IF w.nodes = <<>>
        THEN << <<"Workflow must contain at least one node">> >> ELSE <<>>)
    \o (IF Len(w.nodes) # Cardinality({w.nodes[i].id : i \in 1..Len(w.nodes)})
        THEN << <<"Duplicate node IDs found">> >> ELSE <<>>)
    \o (IF Len(w.nodes) # Cardinality({w.nodes[i].name : i \in 1..Len(w.nodes)})
        THEN << <<"Duplicate node names found">> >> ELSE <<>>)
    \o NodesErrors(w.nodes, 1)
    \o ConnectionsErrors(w.connections,
                         {w.nodes[i].name : i \in 1..Len(w.nodes)})

\* JSON null where the code expects a mapping, and where it expects a list
\* of slots.
Null == <<[null |-> TRUE]>>
NullList == <<Null>>

\* Workflow.validate on the output types of one source: iterating the
\* value of an output type that is not a list raises TypeError.
RECURSIVE OutputsRaise(_)
OutputsRaise(outputs) ==
    IF outputs = <<>> THEN NoErr
    ELSE IF Head(outputs).v = NullList THEN SDKError("TypeError", NoCode)
    ELSE OutputsRaise(Tail(outputs))

\* ... on the sources: outputs.items() on a value that is not a mapping
\* raises AttributeError.
RECURSIVE ConnectionsRaise(_)
ConnectionsRaise(conns) ==
    IF conns = <<>> THEN NoErr
    ELSE IF Head(conns).v = Null THEN SDKError("AttributeError", NoCode)
    ELSE IF OutputsRaise(Head(conns).v) # NoErr
    THEN OutputsRaise(Head(conns).v)
    ELSE ConnectionsRaise(Tail(conns))

\* The exception a call of Workflow.validate ends with, NoErr when it
\* returns its list: self.connections.items() raises AttributeError when
\* connections is not a mapping.
validate_raises(w) ==
    IF w.connections = Null THEN SDKError("AttributeError", NoCode)
    ELSE ConnectionsRaise(w.connections)

\* Workflow.to_dict emitting the time of the last change as createdAt
to_dict_touched(w) ==
    [id |-> w.id,
     name |-> w.name,
     nodes |-> [i \in 1..Len(w.nodes) |-> Node_to_dict(w.nodes[i])],
     connections |-> w.connections,
     active |-> w.active,
     settings |-> w.settings,
     tags |-> w.tags,
     createdAt |-> w.updated_at,
     updatedAt |-> w.updated_at,
     pinData |-> <<>>,
     meta |-> [instanceId |-> w.id]]

\* Workflow.to_dict
to_dict(w) ==
    [id |-> w.id,
     name |-> w.name,
     nodes |-> [i \in 1..Len(w.nodes) |-> Node_to_dict(w.nodes[i])],
     connections |-> w.connections,
     active |-> w.active,
     settings |-> w.settings,
     tags |-> w.tags,
     createdAt |-> w.created_at,
     updatedAt |-> w.updated_at,
     pinData |-> <<>>,
     meta |-> [instanceId |-> w.id]]

\* ... the loop passing over an entry whose id a loaded node has
RECURSIVE ImportNodes_distinct(_, _, _, _)
ImportNodes_distinct(nodes_data, i, fresh, acc) ==
    IF i > Len(nodes_data) THEN [ok |-> TRUE, err |-> NoErr, nodes |-> acc]
    ELSE LET r == Node_from_dict(nodes_data[i], fresh[i + 1])
         IN  IF ~r.ok THEN [ok |-> FALSE, err |-> r.err, nodes |-> acc]
             ELSE IF InNodes(acc, r.node)
             THEN ImportNodes_distinct(nodes_data, i + 1, fresh, acc)
             ELSE ImportNodes_distinct(nodes_data, i + 1, fresh,
                                       Append(acc, r.node))

\* Workflow.from_dict, the loop over data["nodes"]: the first constructor
\* failure propagates.  fresh[i + 1] is the uuid drawn for node i.
RECURSIVE ImportNodes(_, _, _, _)
ImportNodes(nodes_data, i, fresh, acc) ==
    IF i > Len(nodes_data) THEN [ok |-> TRUE, err |-> NoErr, nodes |-> acc]
    ELSE LET r == Node_from_dict(nodes_data[i], fresh[i + 1])
         IN  IF ~r.ok THEN [ok |-> FALSE, err |-> r.err, nodes |-> acc]
             ELSE ImportNodes(nodes_data, i + 1, fresh, Append(acc, r.node))

ImportedWorkflow == <<"Imported Workflow">>

\* Workflow.from_dict; fresh is the sequence of values uuid4 would return
from_dict(data, fresh, now) ==
    LET c == WorkflowInit(DGet(data, "name", ImportedWorkflow),
                          DGet(data, "id", NoneId), fresh[1], now)
    IN  IF ~c.ok THEN [ok |-> FALSE, err |-> c.err]
        ELSE LET r == ImportNodes(DGet(data, "nodes", <<>>), 1, fresh, <<>>)
             IN  IF ~r.ok THEN [ok |-> FALSE, err |-> r.err]
                 ELSE [ok |-> TRUE,
                       err |-> NoErr,
                       w |-> [c.w EXCEPT
                                !.active = DGet(data, "active", TRUE),
                                !.settings = DGet(data, "settings", <<>>),
                                !.tags = DGet(data, "tags", <<>>),
                                !.created_at =
                                    DGet(data, "createdAt", c.w.created_at),
                                !.updated_at =
                                    DGet(data, "updatedAt", c.w.updated_at),
                                !.nodes = r.nodes,
                                !.connections =
                                    DGet(data, "connections", EmptyDict)]]

(***************************************************************************)
(* Workflow.export.  The file system is fs = [dirs, files]: the set of     *)
(* existing directories and an association list from a path <<dir, file>>  *)
(* to the file's content, <<>> for a file opened for writing whose         *)
(* document was not written completely and <<text>> for a written one.     *)
(***************************************************************************)
\* The classes an exception of the given class is an instance of (IOError
\* is an alias of OSError; ValidationError derives from SDKError).
Mro(class) ==
    CASE class = "ValidationError" -> {"ValidationError", "SDKError", "Exception"}
      [] OTHER -> {class, "Exception"}

\* the except clauses with `except Exception` first
ExportHandlerCatchAll(exc) == SDKError("ExportError", NoCode)

\* The except clauses of export, in their order.
ExportHandler(exc) ==
    IF "OSError" \in Mro(exc.class)
    THEN SDKError("ExportError", EXPORT_FILE_ERROR)
    ELSE IF Mro(exc.class) \cap {"ValueError", "TypeError"} # {}
    THEN SDKError("ExportError", EXPORT_SERIALIZATION_ERROR)
    ELSE SDKError("ExportError", NoCode)

\* json.dump raises TypeError on a value it cannot encode
Encodable(workflow_dict) ==
    \A i \in 1..Len(workflow_dict.nodes) :
        LET nd == workflow_dict.nodes[i]
        IN  /\ \A key \in DOMAIN nd.parameters : nd.parameters[key] # NotJson
            /\ "credentials" \in DOMAIN nd =>
                  \A key \in DOMAIN nd.credentials :
                      nd.credentials[key] # NotJson

\* json.dump(workflow_dict, f, indent=2 or None, ensure_ascii=False)
JsonText(workflow_dict, pretty) ==
    [indent |-> IF pretty THEN <<2>> ELSE <<>>, doc |-> workflow_dict]

\* Workflow.export refreshing created_at along with updated_at
export_restamping(w, fs, file_path, pretty, validate_arg, fault, now) ==
    LET dir_path == file_path[1]
        fs1 == [fs EXCEPT !.dirs = @ \cup {dir_path}]
        validation_errors == validate(w)
        workflow_dict == to_dict(w)
        fs2 == [fs1 EXCEPT !.files = Put(@, file_path, <<>>)]
        fs3 == [fs1 EXCEPT !.files =
                   Put(@, file_path, <<JsonText(workflow_dict, pretty)>>)]
    IN  IF fault = "mkdir" /\ dir_path \notin fs.dirs
        THEN [w |-> w, fs |-> fs,
              err |-> ExportHandler(SDKError("OSError", NoCode))]
        ELSE IF validate_arg /\ validation_errors # <<>>
        THEN [w |-> w, fs |-> fs1,
              err |-> ExportHandler(SDKError("ValidationError",
                                             EXPORT_VALIDATION_ERROR))]
        ELSE IF fault = "nomem"
        THEN [w |-> w, fs |-> fs1,
              err |-> ExportHandler(SDKError("MemoryError", NoCode))]
        ELSE IF fault = "open"
        THEN [w |-> w, fs |-> fs1,
              err |-> ExportHandler(SDKError("OSError", NoCode))]
        ELSE IF fault = "write"
        THEN [w |-> w, fs |-> fs2,
              err |-> ExportHandler(SDKError("OSError", NoCode))]
        ELSE IF ~Encodable(workflow_dict)
        THEN [w |-> w, fs |-> fs2,
              err |-> ExportHandler(SDKError("TypeError", NoCode))]
        ELSE [w |-> [w EXCEPT !.updated_at = now, !.created_at = now],
              fs |-> fs3, err |-> NoErr]

\* Workflow.export setting updated_at before it builds the document
export_stamping_first(w, fs, file_path, pretty, validate_arg, fault, now) ==
    LET dir_path == file_path[1]
        fs1 == [fs EXCEPT !.dirs = @ \cup {dir_path}]
        validation_errors == validate(w)
        stamped == [w EXCEPT !.updated_at = now]
        workflow_dict == to_dict(stamped)
        fs2 == [fs1 EXCEPT !.files = Put(@, file_path, <<>>)]
        fs3 == [fs1 EXCEPT !.files =
                   Put(@, file_path, <<JsonText(workflow_dict, pretty)>>)]
    IN  IF fault = "mkdir" /\ dir_path \notin fs.dirs
        THEN [w |-> w, fs |-> fs,
              err |-> ExportHandler(SDKError("OSError", NoCode))]
        ELSE IF validate_arg /\ validation_errors # <<>>
        THEN [w |-> w, fs |-> fs1,
              err |-> ExportHandler(SDKError("ValidationError",
                                             EXPORT_VALIDATION_ERROR))]
        ELSE IF fault = "nomem"
        THEN [w |-> stamped, fs |-> fs1,
              err |-> ExportHandler(SDKError("MemoryError", NoCode))]
        ELSE IF fault = "open"
        THEN [w |-> stamped, fs |-> fs1,
              err |-> ExportHandler(SDKError("OSError", NoCode))]
        ELSE IF fault = "write"
        THEN [w |-> stamped, fs |-> fs2,
              err |-> ExportHandler(SDKError("OSError", NoCode))]
        ELSE IF ~Encodable(workflow_dict)
        THEN [w |-> stamped, fs |-> fs2,
              err |-> ExportHandler(SDKError("TypeError", NoCode))]
        ELSE [w |-> stamped, fs |-> fs3, err |-> NoErr]

\* Workflow.export.  fault is what the environment makes fail in this call:
\* "mkdir" (os.makedirs raises OSError), "nomem" (MemoryError while the
\* dictionary is built), "open" (open raises OSError), "write" (writing or
\* closing the file raises OSError) or "none".
export(w, fs, file_path, pretty, validate_arg, fault, now) ==
    LET dir_path == file_path[1]
        fs1 == [fs EXCEPT !.dirs = @ \cup {dir_path}]
        validation_errors == validate(w)
        workflow_dict == to_dict(w)
        fs2 == [fs1 EXCEPT !.files = Put(@, file_path, <<>>)]
        fs3 == [fs1 EXCEPT !.files =
                   Put(@, file_path, <<JsonText(workflow_dict, pretty)>>)]
    IN  IF fault = "mkdir" /\ dir_path \notin fs.dirs
        THEN [w |-> w, fs |-> fs,
              err |-> ExportHandler(SDKError("OSError", NoCode))]
        ELSE IF validate_arg /\ validation_errors # <<>>
        THEN [w |-> w, fs |-> fs1,
              err |-> ExportHandler(SDKError("ValidationError",
                                             EXPORT_VALIDATION_ERROR))]
        ELSE IF fault = "nomem"
        THEN [w |-> w, fs |-> fs1,
              err |-> ExportHandler(SDKError("MemoryError", NoCode))]
        ELSE IF fault = "open"
        THEN [w |-> w, fs |-> fs1,
              err |-> ExportHandler(SDKError("OSError", NoCode))]
        ELSE IF fault = "write"
        THEN [w |-> w, fs |-> fs2,
              err |-> ExportHandler(SDKError("OSError", NoCode))]
        ELSE IF ~Encodable(workflow_dict)
        THEN [w |-> w, fs |-> fs2,
              err |-> ExportHandler(SDKError("TypeError", NoCode))]
        ELSE [w |-> [w EXCEPT !.updated_at = now], fs |-> fs3, err |-> NoErr]

(***************************************************************************)
(* utils/json_parser.py.  A parsed JSON value is [t, s, n, items]: t is    *)
(* its Python type ("null", "str", "num", "list", "dict"), s the text of a *)
(* str, n the value of a number, items the elements of a list or the       *)
(* [k |-> key, v |-> value] entries of a dict, in the document's order.    *)
(* The text of a file is [kind, value]: "json" for the JSON text of value, *)
(* "blank" for white space only, "junk" for anything json.loads refuses.   *)
(***************************************************************************)
JNull == [t |-> "null", s |-> "", n |-> 0, items |-> <<>>]
JStr(x) == [t |-> "str", s |-> x, n |-> 0, items |-> <<>>]
JNum(x) == [t |-> "num", s |-> "", n |-> x, items |-> <<>>]
JList(xs) == [t |-> "list", s |-> "", n |-> 0, items |-> xs]
JDict(kvs) == [t |-> "dict", s |-> "", n |-> 0, items |-> kvs]

\* `key in d` and d[key] for a dict d
JHas(d, key) == \E i \in 1..Len(d.items) : d.items[i].k = key
JGet(d, key) == d.items[CHOOSE i \in 1..Len(d.items) : d.items[i].k = key].v

ValueError == SDKError("ValueError", NoCode)
TypeError == SDKError("TypeError", NoCode)
FileNotFoundError == SDKError("FileNotFoundError", NoCode)
JSONDecodeError == SDKError("JSONDecodeError", NoCode)
IOError == SDKError("OSError", NoCode)

\* validate_workflow_structure, "Validate each node": the loop raises
\* ValueError at this node
NodeEntryBad(node) ==
    \/ node.t # "dict"
    \/ \E key \in {"id", "name", "type", "position"} : ~JHas(node, key)
    \/ JGet(node, "id").t # "str"
    \/ JGet(node, "name").t # "str"
    \/ JGet(node, "type").t # "str"
    \/ JGet(node, "position").t # "list"
    \/ Len(JGet(node, "position").items) # 2

\* ... `for conn in conn_group`: the first exception.  A target that is a
\* list or a dict cannot be looked up in the set of names (TypeError:
\* unhashable type).
RECURSIVE GroupCheck(_, _)
GroupCheck(conn_group, node_names) ==
    IF conn_group = <<>> THEN NoErr
    ELSE LET conn == Head(conn_group)
         IN  IF conn.t # "dict" THEN ValueError
             ELSE IF ~JHas(conn, "node") THEN ValueError
             ELSE IF JGet(conn, "node").t \in {"list", "dict"} THEN TypeError
             ELSE IF ~(/\ JGet(conn, "node").t = "str"
                       /\ JGet(conn, "node").s \in node_names)
             THEN ValueError
             ELSE GroupCheck(Tail(conn_group), node_names)

\* ... `for conn_group in main_connections`: a group that is not a list is
\* passed over (`continue`)
RECURSIVE MainCheck(_, _)
MainCheck(main_connections, node_names) ==
    IF main_connections = <<>> THEN NoErr
    ELSE LET conn_group == Head(main_connections)
             e == IF conn_group.t # "list" THEN NoErr
                  ELSE GroupCheck(conn_group.items, node_names)
         IN  IF e # NoErr THEN e
             ELSE MainCheck(Tail(main_connections), node_names)

\* ... `for source_node, connection_data in connections.items()`
RECURSIVE SourcesCheck(_, _)
SourcesCheck(items, node_names) ==
    IF items = <<>> THEN NoErr
    ELSE LET source_node == Head(items).k
             connection_data == Head(items).v
             e == IF source_node \notin node_names THEN ValueError
                  ELSE IF connection_data.t # "dict" THEN ValueError
                  ELSE IF ~JHas(connection_data, "main") THEN NoErr
                  ELSE IF JGet(connection_data, "main").t # "list"
                  THEN ValueError
                  ELSE MainCheck(JGet(connection_data, "main").items,
                                 node_names)
         IN  IF e # NoErr THEN e ELSE SourcesCheck(Tail(items), node_names)

\* validate_workflow_structure: the exception raised, NoErr when it
\* returns True
validate_workflow_structure(data) ==
    IF data.t # "dict" THEN ValueError
    ELSE IF ~JHas(data, "nodes") \/ ~JHas(data, "connections")
    THEN ValueError
    ELSE IF JGet(data, "nodes").t # "list" THEN ValueError
    ELSE IF Len(JGet(data, "nodes").items) = 0 THEN ValueError
    ELSE IF \E i \in 1..Len(JGet(data, "nodes").items) :
               NodeEntryBad(JGet(data, "nodes").items[i])
    THEN ValueError
    ELSE IF JGet(data, "connections").t # "dict" THEN ValueError
    ELSE SourcesCheck(JGet(data, "connections").items,
                      {JGet(JGet(data, "nodes").items[i], "name").s :
                          i \in 1..Len(JGet(data, "nodes").items)})

\* pathlib on the names of the model: Path.suffix, str.lower, and the path
\* <<parent, name>> of a directory
Suffix(name) ==
    CASE name = "a.json" -> ".json"
      [] name = "b.JSON" -> ".JSON"
      [] name = "c.txt" -> ".txt"
      [] OTHER -> ""
Lower(s) == IF s = ".JSON" THEN ".json" ELSE s
PathOfDir(d) == IF d = "in/sub" THEN <<"in", "sub">> ELSE <<".", d>>

\* the file a string names, EmptyPath when it names none
EmptyPath == <<"", "">>
FileAt(s) == IF s = "in/a.json" THEN <<"in", "a.json">> ELSE EmptyPath

\* Path.exists, Path.is_file
Exists(fsys, path) ==
    Has(fsys.files, path) \/ \E d \in fsys.dirs : PathOfDir(d) = path
IsFile(fsys, path) == Has(fsys.files, path)

\* validate_file_path: the exception raised, NoErr when it returns True
validate_file_path(fsys, file_path) ==
    IF file_path = EmptyPath THEN ValueError
    ELSE IF ~Exists(fsys, file_path) THEN FileNotFoundError
    ELSE IF ~IsFile(fsys, file_path) THEN ValueError
    ELSE IF Lower(Suffix(file_path[2])) # ".json" THEN ValueError
    ELSE NoErr

\* read_json_file: open() fails on a missing path and on a directory; an
\* empty or blank text is a ValueError, any other text json.loads refuses
\* a JSONDecodeError
read_json_file(fsys, file_path) ==
    IF ~Exists(fsys, file_path)
    THEN [ok |-> FALSE, err |-> FileNotFoundError, data |-> JNull]
    ELSE IF ~IsFile(fsys, file_path)
    THEN [ok |-> FALSE, err |-> IOError, data |-> JNull]
    ELSE LET content == Get(fsys.files, file_path)
         IN  IF Len(content) = 0 \/ content[1].kind = "blank"
             THEN [ok |-> FALSE, err |-> ValueError, data |-> JNull]
             ELSE IF content[1].kind # "json"
             THEN [ok |-> FALSE, err |-> JSONDecodeError, data |-> JNull]
             ELSE [ok |-> TRUE, err |-> NoErr, data |-> content[1].value]

\* read_node_json without its third step
read_node_json_unchecked(fsys, file_path) ==
    LET e == validate_file_path(fsys, file_path)
    IN  IF e # NoErr THEN [ok |-> FALSE, err |-> e, data |-> JNull]
        ELSE read_json_file(fsys, file_path)

\* read_node_json: the three steps in their order
read_node_json(fsys, file_path) ==
    LET e == validate_file_path(fsys, file_path)
        r == read_json_file(fsys, file_path)
        v == validate_workflow_structure(r.data)
    IN  IF e # NoErr THEN [ok |-> FALSE, err |-> e, data |-> JNull]
        ELSE IF ~r.ok THEN r
        ELSE IF v # NoErr THEN [ok |-> FALSE, err |-> v, data |-> JNull]
        ELSE r

\* the directories at and below root
RECURSIVE Under(_, _)
Under(d, root) ==
    IF d = root THEN TRUE
    ELSE IF PathOfDir(d)[1] = d THEN FALSE
    ELSE Under(PathOfDir(d)[1], root)

\* fnmatch of a name against the patterns callers use
Fnmatch(name, pattern) ==
    CASE pattern = "*.json" -> Suffix(name) = ".json"
      [] pattern = "*" -> TRUE
      [] OTHER -> name = pattern

\* dir_path.glob(pattern) and dir_path.rglob(pattern): the files and the
\* directories found, as a set (the order they come in is the system's)
Glob(fsys, directory_path, pattern, recursive) ==
    LET roots == IF recursive
                 THEN {d \in fsys.dirs : Under(d, directory_path)}
                 ELSE {directory_path}
        found == {path \in Keys(fsys.files) : path[1] \in roots}
                 \cup {PathOfDir(d) :
                          d \in {x \in fsys.dirs :
                                    /\ x # directory_path
                                    /\ PathOfDir(x)[1] \in roots}}
    IN  {path \in found : Fnmatch(path[2], pattern)}

\* process_workflow_directory, the loop: `except Exception` passes over a
\* file that read_node_json raised for
RECURSIVE Collect(_, _, _)
Collect(fsys, json_files, workflows) ==
    IF json_files = <<>> THEN workflows
    ELSE LET file_path == Head(json_files)
             r == read_node_json(fsys, file_path)
         IN  Collect(fsys, Tail(json_files),
                     IF r.ok THEN Put(workflows, file_path[2], r.data)
                     ELSE workflows)

\* process_workflow_directory; json_files is what the glob yields, in the
\* order it yields it
process_workflow_directory(fsys, directory_path, json_files) ==
    IF ~(\/ directory_path \in fsys.dirs
         \/ Has(fsys.files, FileAt(directory_path)))
    THEN [err |-> FileNotFoundError, workflows |-> EmptyDict]
    ELSE IF directory_path \notin fsys.dirs
    THEN [err |-> ValueError, workflows |-> EmptyDict]
    ELSE [err |-> NoErr, workflows |-> Collect(fsys, json_files, EmptyDict)]

(***************************************************************************)
(* The callers' inputs.                                                    *)
(***************************************************************************)
\* The values str(uuid.uuid4()) returns, in the order it returns them.
Uuids == <<"u1", "u2", "u3", "u4">>

\* Node ids a caller passes (an id uuid4 generated earlier is one of them).
ExplicitIds == {"i1", "i2"}

\* Constructor arguments other than the id: type, name, parameters,
\* position, credentials.
PlainArgs ==
    [node_type |-> <<"t">>, name |-> <<"a">>, parameters |-> <<>>,
     position |-> <<>>, credentials |-> <<>>]
RichArgs ==
    [node_type |-> <<" ", "h">>, name |-> <<"b", " ">>,
     parameters |-> <<[url |-> "x"]>>, position |-> << <<1, 2>> >>,
     credentials |-> <<[api |-> "k"]>>]
UnencodableArgs ==
    [node_type |-> <<"t">>, name |-> <<"c">>,
     parameters |-> <<[cb |-> NotJson]>>, position |-> <<>>,
     credentials |-> <<>>]

Construct(a, node_id) ==
    NodeInit(a.node_type, a.name, node_id, 1, a.parameters, a.position,
             a.credentials, Uuids[1])

\* The Node values a caller holds: every successful construction from the
\* given arguments and ids.
PoolOf(args, ids) ==
    {Construct(x[1], x[2]).node :
        x \in {y \in args \X ids : Construct(y[1], y[2]).ok}}

GraphPool == PoolOf({PlainArgs, RichArgs}, ExplicitIds)
DocPool ==
    PoolOf({PlainArgs}, {"i1"}) \cup PoolOf({RichArgs, UnencodableArgs}, {"i2"})

\* The nodes of a chain: four with ids and names of their own, one with the
\* name of the first and one with the id of the first.
Named(name) == [PlainArgs EXCEPT !.name = name]
ChainPool ==
    { Construct(PlainArgs, "i1").node, Construct(RichArgs, "i2").node,
      Construct(Named(<<"c">>), "i3").node,
      Construct(Named(<<"d">>), "i4").node,
      Construct(Named(<<"a">>), "i3").node,
      Construct(Named(<<"d">>), "i1").node }

\* A value that is not a Node
NotANode == [text |-> "node"]

\* output_type, input_type, output_index, input_index of a connect call
DefaultArgs == <<"main", "main", 0, 0>>
ConnectArgs ==
    { DefaultArgs, <<"main", "main", 2, 0>>, <<"alt", "in", 0, 1>>,
      <<"main", "main", -1, 0>> }

HerePath == <<".", "wf.json">>
NewDirPath == <<"out", "wf.json">>
Faults == {"none", "mkdir", "nomem", "open", "write"}

\* Strings a caller passes as a name or a type: empty (None is falsy as ""
\* is), all whitespace, and text with and without blanks around it.
Blanks == {<<>>, <<" ">>, <<" ", " ">>}
Texts == Blanks \cup {<<"a">>, <<" ", "b">>, <<"c", " ">>}

\* The node entries of the documents a caller loads: a complete entry, as
\* Node.to_dict writes it, and entries with an empty name, without a type,
\* and without an id and with a position of one number.
FullEntry(node_id, name) ==
    [id |-> node_id, name |-> name, type |-> <<"t">>, typeVersion |-> 1,
     position |-> <<0, 0>>, parameters |-> [x \in {} |-> ""]]
Entries ==
    { FullEntry("i1", <<"a">>), FullEntry("i2", <<"b">>),
      FullEntry("i1", <<"b">>),
      [id |-> "i3", name |-> <<>>, type |-> <<"t">>],
      [id |-> "i3", name |-> <<"c">>],
      [name |-> <<"d">>, type |-> <<"t">>, position |-> <<5>>] }
EntryLists ==
    {<<>>} \cup {<<e>> : e \in Entries}
           \cup {<<e[1], e[2]>> : e \in Entries \X Entries}

\* The connections values of those documents: none, a -> b, a -> z, a
\* source z, a record without a target, and null in the place of the
\* mapping, of a source's mapping and of a slot list.
Rec(target_name) == [node |-> target_name, type |-> "main", index |-> 0]
Wire(source_name, slots) ==
    <<[k |-> source_name, v |-> <<[k |-> "main", v |-> slots]>>]>>
DocConnections ==
    { EmptyDict,
      Wire(<<"a">>, << <<Rec(<<"b">>)>> >>),
      Wire(<<"a">>, << <<Rec(<<"z">>)>> >>),
      Wire(<<"z">>, << <<>> >>),
      Wire(<<"a">>, << <<[type |-> "main", index |-> 0]>> >>),
      Null,
      <<[k |-> <<"a">>, v |-> Null]>>,
      Wire(<<"a">>, NullList) }

\* The documents: every entry list with every connections value under the
\* name "w", and documents without a name, with a blank and an empty name.
Docs ==
    { [name |-> <<"w">>, nodes |-> ns, connections |-> c] :
         ns \in EntryLists, c \in DocConnections }
    \cup { [nodes |-> <<FullEntry("i1", <<"a">>)>>],
           [name |-> <<" ">>, nodes |-> <<FullEntry("i1", <<"a">>)>>],
           [name |-> <<>>, id |-> "wf2"] }

\* The documents handed to the structural checker: node entries, connection
\* records and wirings as to_dict writes them, and the ways a document a
\* caller did not write can differ from that.
SNode(node_id, name) ==
    JDict(<<[k |-> "id", v |-> JStr(node_id)],
            [k |-> "name", v |-> JStr(name)],
            [k |-> "type", v |-> JStr("t")],
            [k |-> "position", v |-> JList(<<JNum(0), JNum(0)>>)]>>)
SRec(target) ==
    JDict(<<[k |-> "node", v |-> target],
            [k |-> "type", v |-> JStr("main")],
            [k |-> "index", v |-> JNum(0)]>>)
SWire(source_name, output_type, groups) ==
    [k |-> source_name, v |-> JDict(<<[k |-> output_type, v |-> groups]>>)]
SDoc(node_list, conns) ==
    JDict(<<[k |-> "nodes", v |-> node_list],
            [k |-> "connections", v |-> conns]>>)
TwoNodes == JList(<<SNode("1", "a"), SNode("2", "b")>>)
Slot(records) == JList(<<JList(records)>>)
Wired(output_type, groups) ==
    SDoc(TwoNodes, JDict(<<SWire("a", output_type, groups),
                           SWire("b", "main", Slot(<<>>))>>))

GoodDoc == Wired("main", Slot(<<SRec(JStr("b"))>>))
OtherGoodDoc == SDoc(JList(<<SNode("1", "a")>>), JDict(<<>>))
DanglingDoc == Wired("main", Slot(<<SRec(JStr("z"))>>))
ListTargetDoc == Wired("main", Slot(<<SRec(JList(<<JStr("b")>>))>>))

StructDocs ==
    { GoodDoc, OtherGoodDoc, DanglingDoc, ListTargetDoc,
      \* not a mapping; a key missing
      JList(<<>>),
      JDict(<<[k |-> "nodes", v |-> TwoNodes]>>),
      JDict(<<[k |-> "connections", v |-> JDict(<<>>)]>>),
      \* nodes: not a list, empty, an entry that is no mapping, an entry
      \* without a position, with a number for an id, with one coordinate
      SDoc(JDict(<<>>), JDict(<<>>)),
      SDoc(JList(<<>>), JDict(<<>>)),
      SDoc(JList(<<JStr("a")>>), JDict(<<>>)),
      SDoc(JList(<<JDict(<<[k |-> "id", v |-> JStr("1")],
                           [k |-> "name", v |-> JStr("a")],
                           [k |-> "type", v |-> JStr("t")]>>)>>),
           JDict(<<>>)),
      SDoc(JList(<<JDict(<<[k |-> "id", v |-> JNum(1)],
                           [k |-> "name", v |-> JStr("a")],
                           [k |-> "type", v |-> JStr("t")],
                           [k |-> "position",
                            v |-> JList(<<JNum(0), JNum(0)>>)]>>)>>),
           JDict(<<>>)),
      SDoc(JList(<<JDict(<<[k |-> "id", v |-> JStr("1")],
                           [k |-> "name", v |-> JStr("a")],
                           [k |-> "type", v |-> JStr("t")],
                           [k |-> "position", v |-> JList(<<JNum(5)>>)]>>)>>),
           JDict(<<>>)),
      \* connections: not a mapping, a source that is no node, a source
      \* whose value is no mapping, no "main" entry, "main" not a list
      SDoc(TwoNodes, JList(<<>>)),
      SDoc(TwoNodes, JDict(<<SWire("z", "main", Slot(<<>>))>>)),
      SDoc(TwoNodes, JDict(<<[k |-> "a", v |-> JNull]>>)),
      SDoc(TwoNodes, JDict(<<[k |-> "a", v |-> JDict(<<>>)]>>)),
      Wired("main", JStr("b")),
      \* "main": a group that is a mapping, a string, null; a group after
      \* such a one
      Wired("main", JList(<<SRec(JStr("b"))>>)),
      Wired("main", JList(<<JStr("b")>>)),
      Wired("main", JList(<<JNull>>)),
      Wired("main", JList(<<JNull, JList(<<SRec(JStr("z"))>>)>>)),
      \* records: no mapping, no target, a target that is null, a number
      Wired("main", Slot(<<JStr("b")>>)),
      Wired("main", Slot(<<JDict(<<[k |-> "type", v |-> JStr("main")]>>)>>)),
      Wired("main", Slot(<<SRec(JNull)>>)),
      Wired("main", Slot(<<SRec(JNum(1))>>)),
      Wired("main", Slot(<<SRec(JStr("b")), SRec(JStr("z"))>>)),
      \* another output type
      Wired("alt", Slot(<<SRec(JStr("b"))>>)),
      Wired("alt", Slot(<<SRec(JStr("z"))>>)) }

\* The files of the directory a batch is run on: the paths they can have
\* and what they can hold (<<>> is an empty file).
BatchPaths ==
    { <<"in", "a.json">>, <<"in", "b.JSON">>, <<"in", "c.txt">>,
      <<"in/sub", "a.json">> }
BatchTexts ==
    { [kind |-> "junk", value |-> JNull],
      [kind |-> "json", value |-> GoodDoc],
      [kind |-> "json", value |-> OtherGoodDoc],
      [kind |-> "json", value |-> ListTargetDoc] }
BatchContents == {<<>>} \cup {<<text>> : text \in BatchTexts}
BatchDirs == {"in", "nowhere", "in/a.json"}
Patterns == {"*.json", "*"}

\* the orders in which a set can be enumerated
Orders(S) ==
    {f \in [1..Cardinality(S) -> S] :
        \A i, j \in 1..Cardinality(S) : i # j => f[i] # f[j]}

(***************************************************************************)
(* Two references to one object.  A second workflow is kept with the set   *)
(* of its attributes that are the very objects the first workflow holds:   *)
(* a call that changes such an object in place changes it for both.        *)
(***************************************************************************)
\* Workflow.to_dict: the keys of the document whose value is the workflow's
\* own object (`nodes` is a new list of new dictionaries).
to_dict_same == {"connections", "settings", "tags"}

\* Workflow.from_dict: the attributes assigned the very value found in the
\* document (`nodes` is filled with newly constructed Node objects).
from_dict_same == {"settings", "tags", "connections"}

\* what the holder tw of a second workflow sees after a call has changed the
\* connections of the workflow w in place
Seen(tw, before, after) ==
    IF Len(tw) = 0 THEN tw
    ELSE IF "connections" \in tw[1].same
    THEN <<[tw[1] EXCEPT !.w.connections = after.connections]>>
    ELSE tw

(***************************************************************************)
(* Threads calling add_node on the one workflow without a lock.  A call    *)
(* is at "check" before its duplicate test, at "append" once the test has  *)
(* passed, at "stamp" once the node is in the list; seen is the list the   *)
(* test read.                                                              *)
(***************************************************************************)
Threads == {1, 2}

NotCalling == [pc |-> "out", node |-> NotANode, seen |-> <<>>, err |-> NoErr]

(***************************************************************************)
(* The state machine: one Workflow, its caller and the file system.        *)
(* A call is one step: it sets op to the operation called and err to the   *)
(* exception it raised (NoErr when it returned normally); the caller then  *)
(* takes the result (Return) before it makes its next call.  made is the   *)
(* object a constructor call has just returned, <<>> when there is none;   *)
(* for the functions of json_parser.py it is the document the call was     *)
(* about: the one checked, the one read, the mapping collected.  twin is   *)
(* <<>> or a second workflow, calls the add_node calls threads are in.     *)
(***************************************************************************)
VARIABLES wf, fs, clock, op, err, made, twin, calls

vars == <<wf, fs, clock, op, err, made, twin, calls>>

nodes == wf.nodes
connections == wf.connections

\* the number of connection records
RECURSIVE CountSlots(_)
CountSlots(slots) ==
    IF slots = <<>> THEN 0 ELSE Len(Head(slots)) + CountSlots(Tail(slots))
RECURSIVE CountPorts(_)
CountPorts(ports) ==
    IF ports = <<>> THEN 0
    ELSE CountSlots(Head(ports).v) + CountPorts(Tail(ports))
RECURSIVE RecordCount(_)
RecordCount(conns) ==
    IF conns = <<>> THEN 0
    ELSE CountPorts(Head(conns).v) + RecordCount(Tail(conns))

Init ==
    /\ \E name \in {<<"w">>, <<" ", "w">>} :
          /\ WorkflowInit(name, "wf1", Uuids[1], 0).ok
          /\ wf = WorkflowInit(name, "wf1", Uuids[1], 0).w
    /\ fs = [dirs |-> {"."}, files |-> EmptyDict]
    /\ clock = 0
    /\ op = "Workflow"
    /\ err = NoErr
    /\ made = <<wf>>
    /\ twin = <<>>
    /\ calls = [t \in Threads |-> NotCalling]

Idle == "idle"

\* the caller has seen the outcome of its last call
Return ==
    /\ op # Idle
    /\ op' = Idle
    /\ err' = NoErr
    /\ made' = <<>>
    /\ UNCHANGED <<twin, calls, wf, fs, clock>>

\* time passes between two calls
Tick ==
    /\ op = Idle
    /\ clock < MaxClock
    /\ clock' = clock + 1
    /\ UNCHANGED <<twin, calls, wf, fs, op, err, made>>

AddNode(n) ==
    /\ op = Idle
    /\ Len(nodes) < MaxNodes
    /\ wf' = add_node(wf, n, clock).w
    /\ err' = add_node(wf, n, clock).err
    /\ op' = "AddNode"
    /\ UNCHANGED <<twin, calls, fs, clock, made>>

AddNodes(ns) ==
    /\ op = Idle
    /\ Len(nodes) < MaxNodes
    /\ wf' = add_nodes(wf, ns, clock).w
    /\ err' = add_nodes(wf, ns, clock).err
    /\ op' = "AddNodes"
    /\ UNCHANGED <<twin, calls, fs, clock, made>>

Connect(from_node, to_node, a) ==
    /\ op = Idle
    /\ RecordCount(connections) < MaxRecords
    /\ op' = "Connect"
    /\ LET r == connect(wf, from_node, to_node, a[1], a[2], a[3], a[4], clock)
       IN  /\ err' = r.err
           /\ wf' = r.w
           /\ twin' = Seen(twin, wf, r.w)
    /\ UNCHANGED <<calls, fs, clock, made>>

Validate ==
    /\ op = Idle
    /\ op' = "Validate"
    /\ err' = validate_raises(wf)
    /\ UNCHANGED <<twin, calls, wf, fs, clock, made>>

Export(file_path, pretty, validate_arg, fault) ==
    /\ op = Idle
    /\ op' = "Export"
    /\ LET r == export(wf, fs, file_path, pretty, validate_arg, fault, clock)
       IN  /\ err' = r.err
           /\ fs' = r.fs
           /\ wf' = r.w
    /\ UNCHANGED <<twin, calls, clock, made>>

\* Workflow(name, workflow_id): the caller goes on with the new workflow
NewWorkflow(name, workflow_id) ==
    /\ op = Idle
    /\ op' = "Workflow"
    /\ LET r == WorkflowInit(name, workflow_id, Uuids[1], clock)
       IN  /\ err' = r.err
           /\ made' = IF r.ok THEN <<r.w>> ELSE <<>>
           /\ wf' = IF r.ok THEN r.w ELSE wf
    /\ UNCHANGED <<twin, calls, fs, clock>>

\* Node(node_type, name, node_id) with the other arguments defaulted
NewNode(node_type, name, node_id) ==
    /\ op = Idle
    /\ op' = "Node"
    /\ LET r == NodeInit(node_type, name, node_id, 1, <<>>, <<>>, <<>>,
                         Uuids[1])
       IN  /\ err' = r.err
           /\ made' = IF r.ok THEN <<r.node>> ELSE <<>>
    /\ UNCHANGED <<twin, calls, wf, fs, clock>>

\* Workflow.from_dict(data): the caller goes on with the loaded workflow
FromDict(data) ==
    /\ op = Idle
    /\ op' = "from_dict"
    /\ LET r == from_dict(data, Uuids, clock)
       IN  /\ err' = r.err
           /\ made' = IF r.ok THEN <<r.w>> ELSE <<>>
           /\ wf' = IF r.ok THEN r.w ELSE wf
    /\ UNCHANGED <<twin, calls, fs, clock>>

\* w2 = Workflow.from_dict(w.to_dict()): the second workflow is kept beside
\* the first, with the attributes that are the first one's own objects
RoundTrip ==
    /\ op = Idle
    /\ Len(twin) = 0
    /\ op' = "from_dict"
    /\ LET r == from_dict(to_dict(wf), Uuids, clock)
       IN  /\ err' = r.err
           /\ made' = IF r.ok THEN <<r.w>> ELSE <<>>
           /\ twin' = IF r.ok
                      THEN <<[w |-> r.w,
                              same |-> to_dict_same \cap from_dict_same]>>
                      ELSE twin
    /\ UNCHANGED <<wf, calls, fs, clock>>

\* w2.add_node(n): the list of nodes is w2's own
TwinAddNode(n) ==
    /\ op = Idle
    /\ Len(twin) = 1
    /\ Len(twin[1].w.nodes) < MaxNodes
    /\ op' = "w2.add_node"
    /\ LET r == add_node(twin[1].w, n, clock)
       IN  /\ err' = r.err
           /\ twin' = <<[twin[1] EXCEPT !.w = r.w]>>
    /\ UNCHANGED <<wf, calls, fs, clock, made>>

\* w2.connect(from_node, to_node): connect writes into self.connections in
\* place, and the first workflow holds that same mapping when from_dict was
\* given it
TwinConnect(from_node, to_node, a) ==
    /\ op = Idle
    /\ Len(twin) = 1
    /\ RecordCount(twin[1].w.connections) < MaxRecords
    /\ op' = "w2.connect"
    /\ LET r == connect(twin[1].w, from_node, to_node,
                        a[1], a[2], a[3], a[4], clock)
       IN  /\ err' = r.err
           /\ twin' = <<[twin[1] EXCEPT !.w = r.w]>>
           /\ wf' = IF "connections" \in twin[1].same
                    THEN [wf EXCEPT !.connections = r.w.connections]
                    ELSE wf
    /\ UNCHANGED <<calls, fs, clock, made>>

\* another program puts a file into the directory tree
PutFile(file_path, content) ==
    /\ op = Idle
    /\ file_path[1] \in fs.dirs
    /\ Len(Put(fs.files, file_path, content)) <= MaxFiles
    /\ fs' = [fs EXCEPT !.files = Put(@, file_path, content)]
    /\ UNCHANGED <<wf, clock, op, err, made, twin, calls>>

\* validate_workflow_structure(data); made is the document checked
ValidateStructure(data) ==
    /\ op = Idle
    /\ op' = "validate_workflow_structure"
    /\ err' = validate_workflow_structure(data)
    /\ made' = <<data>>
    /\ UNCHANGED <<wf, fs, clock, twin, calls>>

ReadNodeJson(file_path) ==
    /\ op = Idle
    /\ op' = "read_node_json"
    /\ LET r == read_node_json(fs, file_path)
       IN  /\ err' = r.err
           /\ made' = IF r.ok THEN <<r.data>> ELSE <<>>
    /\ UNCHANGED <<wf, fs, clock, twin, calls>>

\* made is the mapping returned
ProcessDirectory(directory_path, pattern, recursive) ==
    /\ op = Idle
    /\ op' = "process_workflow_directory"
    /\ \E json_files \in Orders(Glob(fs, directory_path, pattern, recursive)) :
          LET r == process_workflow_directory(fs, directory_path, json_files)
          IN  /\ err' = r.err
              /\ made' = IF r.err = NoErr THEN <<r.workflows>> ELSE <<>>
    /\ UNCHANGED <<wf, fs, clock, twin, calls>>

\* A thread calls add_node(n) ...
Begin(t, n) ==
    /\ op = Idle
    /\ calls[t].pc = "out"
    /\ Len(nodes) + Cardinality({u \in Threads : calls[u].pc # "out"})
          < MaxNodes
    /\ calls' = [calls EXCEPT ![t] = [pc |-> "check", node |-> n,
                                      seen |-> <<>>, err |-> NoErr]]
    /\ UNCHANGED <<wf, fs, clock, op, err, made, twin>>

\* ... runs the isinstance test and the scan of self.nodes for its id, and
\* raises or goes on ...
Check(t) ==
    /\ calls[t].pc = "check"
    /\ LET e == add_node_checks(wf, calls[t].node)
       IN  calls' = [calls EXCEPT ![t] =
                        IF e # NoErr THEN [NotCalling EXCEPT !.err = e]
                        ELSE [@ EXCEPT !.pc = "append", !.seen = nodes]]
    /\ UNCHANGED <<wf, fs, clock, op, err, made, twin>>

\* ... appends the node: self.nodes.append(node) ...
AppendStep(t) ==
    /\ calls[t].pc = "append"
    /\ wf' = [wf EXCEPT !.nodes = Append(@, calls[t].node)]
    /\ calls' = [calls EXCEPT ![t].pc = "stamp"]
    /\ UNCHANGED <<fs, clock, op, err, made, twin>>

\* ... and sets updated_at and returns.
Stamp(t) ==
    /\ calls[t].pc = "stamp"
    /\ wf' = [wf EXCEPT !.updated_at = clock]
    /\ calls' = [calls EXCEPT ![t] = NotCalling]
    /\ UNCHANGED <<fs, clock, op, err, made, twin>>

\* Building the graph: every argument combination of add_node, add_nodes and
\* connect on nodes that share ids and names, with validate in between.
Next ==
    \/ Return
    \/ \E n \in GraphPool \cup {NotANode} : AddNode(n)
    \/ \E n1, n2 \in GraphPool : AddNodes(<<n1, n2>>)
    \/ \E from_node, to_node \in GraphPool : \E a \in ConnectArgs :
          Connect(from_node, to_node, a)
    \/ Validate

Spec == Init /\ [][Next]_vars

\* The five operations of a Workflow called one at a time in any order,
\* connect with its default ports, export to one path.
NextCalls ==
    \/ Return
    \/ \E n \in GraphPool : AddNode(n)
    \/ \E n1, n2 \in GraphPool : AddNodes(<<n1, n2>>)
    \/ \E from_node, to_node \in GraphPool :
          Connect(from_node, to_node, DefaultArgs)
    \/ Validate
    \/ \E validate_arg \in BOOLEAN : \E fault \in {"none", "open"} :
          Export(HerePath, TRUE, validate_arg, fault)

SpecCalls == Init /\ [][NextCalls]_vars

\* Build, then export: every argument and fault combination of export, at
\* different times, on workflows of nodes with and without payload that
\* were connected with the default ports before the first file was opened.
NextExport ==
    \/ Return
    \/ Tick
    \/ /\ fs.files = EmptyDict
       /\ \/ \E n \in DocPool : AddNode(n)
          \/ \E from_node, to_node \in DocPool :
                Connect(from_node, to_node, DefaultArgs)
    \/ \E pretty, validate_arg \in BOOLEAN : \E fault \in Faults :
          Export(NewDirPath, pretty, validate_arg, fault)

SpecExport == Init /\ [][NextExport]_vars

\* Making objects: the constructors on every kind of name and type, and
\* from_dict on documents as to_dict writes them and as it never would,
\* with validate on what was made.
NextImport ==
    \/ Return
    \/ Tick
    \/ \E name \in Texts : \E workflow_id \in {NoneId, "wf2"} :
          NewWorkflow(name, workflow_id)
    \/ \E node_type, name \in Texts : \E node_id \in {NoneId, "", "i1"} :
          NewNode(node_type, name, node_id)
    \/ \E data \in Docs : FromDict(data)
    \/ Validate

SpecImport == Init /\ [][NextImport]_vars

\* A chain: nodes are added and connected in the order they were added,
\* node i to node i+1 with the default ports, and the workflow is validated
\* and exported along the way.
NextChain ==
    \/ Return
    \/ \E n \in ChainPool : AddNode(n)
    \/ \E i \in 1..(Len(nodes) - 1) :
          /\ i = RecordCount(connections) + 1
          /\ Connect(nodes[i], nodes[i + 1], DefaultArgs)
    \/ Validate
    \/ \E pretty \in BOOLEAN : Export(HerePath, pretty, TRUE, "none")

SpecChain == Init /\ [][NextChain]_vars

\* A workflow and the one read back from its own document: nodes are added
\* to either and connected in either, before and after the round trip.
NextAlias ==
    \/ Return
    \/ Tick
    \/ \E n \in GraphPool : AddNode(n)
    \/ \E from_node, to_node \in GraphPool :
          Connect(from_node, to_node, DefaultArgs)
    \/ RoundTrip
    \/ \E n \in GraphPool : TwinAddNode(n)
    \/ \E from_node, to_node \in GraphPool :
          TwinConnect(from_node, to_node, DefaultArgs)

SpecAlias == Init /\ [][NextAlias]_vars

\* Two threads call add_node on the one workflow with no lock: the steps of
\* their calls interleave in every way.
NextThreads ==
    \/ Return
    \/ Tick
    \/ \E t \in Threads : \E n \in GraphPool \cup {NotANode} : Begin(t, n)
    \/ \E t \in Threads : Check(t)
    \/ \E t \in Threads : AppendStep(t)
    \/ \E t \in Threads : Stamp(t)

SpecThreads == Init /\ [][NextThreads]_vars

\* Reading: the checker is called on documents; then files come to lie in
\* a directory and its subdirectory, and the reader of one file and the
\* batch helper are called on them.
InitBatch ==
    /\ wf = WorkflowInit(<<"w">>, "wf1", Uuids[1], 0).w
    /\ fs = [dirs |-> {".", "in", "in/sub"}, files |-> EmptyDict]
    /\ clock = 0
    /\ op = "Workflow"
    /\ err = NoErr
    /\ made = <<wf>>
    /\ twin = <<>>
    /\ calls = [t \in Threads |-> NotCalling]

NextBatch ==
    \/ Return
    \/ \E file_path \in BatchPaths : \E content \in BatchContents :
          PutFile(file_path, content)
    \/ /\ fs.files = EmptyDict
       /\ \E data \in StructDocs : ValidateStructure(data)
    \/ \E file_path \in BatchPaths \cup {EmptyPath, <<"in", "sub">>,
                                         <<"in", "none.json">>} :
          ReadNodeJson(file_path)
    \/ \E directory_path \in BatchDirs : \E pattern \in Patterns :
          \E recursive \in BOOLEAN :
             ProcessDirectory(directory_path, pattern, recursive)

SpecBatch == InitBatch /\ [][NextBatch]_vars

(***************************************************************************)
(* Properties.                                                             *)
(***************************************************************************)
NodeNames == {nodes[i].name : i \in 1..Len(nodes)}

\* the slots of a source's output type, none when either entry is missing
SlotsOf(conns, source_name, output_type) ==
    IF Has(conns, source_name) /\ Has(Get(conns, source_name), output_type)
    THEN Get(Get(conns, source_name), output_type)
    ELSE <<>>

\* every connection record of a connections mapping
Records(conns) ==
    UNION {UNION {UNION {Range(conns[i].v[j].v[k]) :
                            k \in 1..Len(conns[i].v[j].v)} :
                     j \in 1..Len(conns[i].v)} :
              i \in 1..Len(conns)}

\* C1: whatever AddNode, AddNodes, Connect, Validate and Export calls were
\* made one at a time on the new workflow, no two elements of nodes have
\* the same id.
C1_UniqueNodeIds ==
    \A i, j \in 1..Len(nodes) : i # j => nodes[i].id # nodes[j].id

\* two nodes are in, a file was exported, and an AddNode of a duplicate id
\* has just been refused
C1_Witness ==
    /\ Len(nodes) = 2
    /\ fs.files # EmptyDict
    /\ op = "AddNode"
    /\ err.code = WORKFLOW_DUPLICATE_NODE

\* C2: AddNode of a node whose id is the id of a node of the workflow
\* raises WorkflowError WF003 and leaves nodes as it was, whatever the name
\* of the node.
C2_DuplicateIdRejected ==
    [][\A n \in GraphPool :
          (AddNode(n) /\ \E i \in 1..Len(nodes) : nodes[i].id = n.id)
             => /\ err' = SDKError("WorkflowError", WORKFLOW_DUPLICATE_NODE)
                /\ nodes' = nodes]_vars

\* node "a" alone is in the workflow and an AddNode was refused as duplicate
C2_Witness ==
    /\ op = "AddNode"
    /\ err = SDKError("WorkflowError", WORKFLOW_DUPLICATE_NODE)
    /\ Len(nodes) = 1
    /\ nodes[1].name = <<"a">>

\* C3: Connect raises CN001 when the source is not in nodes, otherwise
\* CN002 when the target is not, and in both cases connections is as it was.
\* Connect(from_node, to_node, a) is the step to the result of connect, so
\* the property is stated of that result, for every call the caller can make.
C3_DanglingConnectRejected ==
    op = Idle =>
       \A from_node, to_node \in GraphPool : \A a \in ConnectArgs :
          LET r == connect(wf, from_node, to_node, a[1], a[2], a[3], a[4],
                           clock)
          IN  /\ ~InNodes(nodes, from_node)
                   => /\ r.err = SDKError("WorkflowError",
                                          CONNECTION_SOURCE_NOT_FOUND)
                      /\ r.w.connections = connections
              /\ (InNodes(nodes, from_node) /\ ~InNodes(nodes, to_node))
                   => /\ r.err = SDKError("WorkflowError",
                                          CONNECTION_TARGET_NOT_FOUND)
                      /\ r.w.connections = connections

\* a Connect to a node that was never added was refused, with a connection
\* made before it still there
C3_Witness ==
    /\ op = "Connect"
    /\ err = SDKError("WorkflowError", CONNECTION_TARGET_NOT_FOUND)
    /\ Len(nodes) = 1
    /\ RecordCount(connections) = 1

\* C4: after a Connect that succeeded, whatever Node values it was given,
\* every key of connections and every record's target is the name of a node
\* of the workflow, so Validate() reports no connection problem.
C4_ConnectionsNameNodes ==
    (op = "Connect" /\ err = NoErr)
       => /\ Keys(connections) \subseteq NodeNames
          /\ \A r \in Records(connections) : r.node \in NodeNames
          /\ ConnectionsErrors(connections, NodeNames) = <<>>

\* C5: a Connect of two nodes of the workflow with output slot k >= 0
\* succeeds; the slot sequence of the source's output type gets max(its
\* length, k + 1) slots, the record is appended to slot k, the slots added
\* below k are empty and every other slot is as it was.
C5_SlotGrowth ==
    op = Idle =>
       \A from_node, to_node \in GraphPool : \A a \in ConnectArgs :
          (InNodes(nodes, from_node) /\ InNodes(nodes, to_node) /\ a[3] >= 0)
             => LET r == connect(wf, from_node, to_node, a[1], a[2], a[3],
                                 a[4], clock)
                    old == SlotsOf(connections, from_node.name, a[1])
                    new == SlotsOf(r.w.connections, from_node.name, a[1])
                    k == a[3]
                    rec == [node |-> to_node.name, type |-> a[2],
                            index |-> a[4]]
                IN  /\ r.err = NoErr
                    /\ Len(new) = IF Len(old) < k + 1 THEN k + 1 ELSE Len(old)
                    /\ \A p \in 1..Len(new) :
                          new[p] = (IF p <= Len(old) THEN old[p] ELSE <<>>)
                                   \o (IF p = k + 1 THEN <<rec>> ELSE <<>>)

\* slot 2 of an output type was connected while slots 0 and 1 were absent,
\* and slot 0 of the same output type holds a record too
C5_Witness ==
    /\ op = "Connect"
    /\ err = NoErr
    /\ \E i \in 1..Len(connections) :
          LET slots == SlotsOf(connections, connections[i].k, "main")
          IN  /\ Len(slots) = 3
              /\ Len(slots[1]) = 1 /\ slots[2] = <<>> /\ Len(slots[3]) = 1

MainPlaceholder == <<[k |-> "main", v |-> << <<>> >>]>>

\* C6 as stated: the target of every record is a key of connections; a
\* successful Connect whose target had no entry creates the entry
\* {"main": [[]]} for it; an entry the target has is not replaced.
C6_TargetSeeded ==
    /\ \A x \in Records(connections) : Has(connections, x.node)
    /\ op = Idle =>
          \A from_node, to_node \in GraphPool : \A a \in ConnectArgs :
             LET r == connect(wf, from_node, to_node, a[1], a[2], a[3], a[4],
                              clock)
                 c == r.w.connections
             IN  r.err = NoErr
                    => /\ Has(c, to_node.name)
                       /\ ~Has(connections, to_node.name)
                            => Get(c, to_node.name) = MainPlaceholder
                       /\ (/\ Has(connections, to_node.name)
                           /\ to_node.name # from_node.name)
                            => Get(c, to_node.name)
                                  = Get(connections, to_node.name)

\* C6 amended: the entry created is {"main": [[]]} when the target had no
\* entry and its name is not the name of the source; when it is, the one
\* entry of that name is the source's and holds the new record.
C6_TargetSeededOtherName ==
    /\ \A x \in Records(connections) : Has(connections, x.node)
    /\ op = Idle =>
          \A from_node, to_node \in GraphPool : \A a \in ConnectArgs :
             LET r == connect(wf, from_node, to_node, a[1], a[2], a[3], a[4],
                              clock)
                 c == r.w.connections
             IN  r.err = NoErr
                    => /\ Has(c, to_node.name)
                       /\ (/\ ~Has(connections, to_node.name)
                           /\ to_node.name # from_node.name)
                            => Get(c, to_node.name) = MainPlaceholder
                       /\ (/\ ~Has(connections, to_node.name)
                           /\ to_node.name = from_node.name)
                            => [node |-> to_node.name, type |-> a[2],
                                index |-> a[4]]
                                  \in Records(<<[k |-> to_node.name,
                                                 v |-> Get(c, to_node.name)]>>)
                       /\ (/\ Has(connections, to_node.name)
                           /\ to_node.name # from_node.name)
                            => Get(c, to_node.name)
                                  = Get(connections, to_node.name)

\* a connection from output type "alt" was made and its target, which is
\* no source, has the placeholder entry
C6_Witness ==
    /\ op = "Connect"
    /\ err = NoErr
    /\ \E r \in Records(connections) :
          /\ Get(connections, r.node) = MainPlaceholder
          /\ \E i \in 1..Len(connections) :
                /\ Has(connections[i].v, "alt")
                /\ r \in Records(<<connections[i]>>)

\* C7: from_dict(to_dict(w)) has w's name, active, settings, tags, as many
\* nodes, each with the id, name, type, position and parameters of w's node
\* at the same place, and a connections mapping equal to w's.
C7_RoundTrip ==
    LET r == from_dict(to_dict(wf), Uuids, clock)
    IN  /\ r.ok
        /\ r.w.name = wf.name
        /\ r.w.active = wf.active
        /\ r.w.settings = wf.settings
        /\ r.w.tags = wf.tags
        /\ Len(r.w.nodes) = Len(nodes)
        /\ \A i \in 1..Len(nodes) :
              /\ r.w.nodes[i].id = nodes[i].id
              /\ r.w.nodes[i].name = nodes[i].name
              /\ r.w.nodes[i].type = nodes[i].type
              /\ r.w.nodes[i].position = nodes[i].position
              /\ r.w.nodes[i].parameters = nodes[i].parameters
        /\ DictEq(r.w.connections, connections)

\* a workflow of two nodes, one with parameters, a position and
\* credentials, and two connection records
C7_Witness ==
    /\ Len(nodes) = 2
    /\ RecordCount(connections) = 2
    /\ \E i \in 1..Len(nodes) :
          /\ nodes[i].position = <<1, 2>>
          /\ DOMAIN nodes[i].parameters # {}
          /\ DOMAIN nodes[i].credentials # {}

\* C8: Export with validate=true on a workflow whose Validate() is not
\* empty raises ValidationError with code EX003.
C8_ValidationFailedKind ==
    [][\A pretty \in BOOLEAN :
          (Export(NewDirPath, pretty, TRUE, "none") /\ validate(wf) # <<>>)
             => err' = SDKError("ValidationError", EXPORT_VALIDATION_ERROR)]_vars

\* C9: Export with validate=true on a workflow whose Validate() is not
\* empty fails and leaves the file system as it was: no directory created,
\* no file created, truncated or written.
C9_ValidationBeforeIO ==
    [][\A pretty \in BOOLEAN : \A fault \in Faults :
          (Export(NewDirPath, pretty, TRUE, fault) /\ validate(wf) # <<>>)
             => /\ err' # NoErr
                /\ fs' = fs]_vars

\* C10: an Export that gets past validation and fails raises ExportError:
\* with EX001 when creating the directory, opening or writing the file
\* fails, with EX002 when the document cannot be encoded, with no code for
\* another failure; it returns normally only when nothing failed, and then
\* the whole document is in the file.  Export(file_path, ...) is the step to
\* the result of export, so the property is stated of that result.
C10_ExportFailureCategories ==
    op = Idle =>
       \A pretty, validate_arg \in BOOLEAN : \A fault \in Faults :
          LET r == export(wf, fs, NewDirPath, pretty, validate_arg, fault,
                          clock)
              mkdir_fails == fault = "mkdir" /\ NewDirPath[1] \notin fs.dirs
              passed == ~mkdir_fails
                        /\ (~validate_arg \/ validate(wf) = <<>>)
              io_fails == mkdir_fails
                          \/ (passed /\ fault \in {"open", "write"})
              encode_fails == /\ passed
                              /\ fault \in {"none", "mkdir"}
                              /\ ~Encodable(to_dict(wf))
              other_fails == passed /\ fault = "nomem"
          IN  /\ io_fails
                   => r.err = SDKError("ExportError", EXPORT_FILE_ERROR)
              /\ encode_fails
                   => r.err = SDKError("ExportError",
                                       EXPORT_SERIALIZATION_ERROR)
              /\ other_fails => r.err = SDKError("ExportError", NoCode)
              /\ r.err = NoErr
                   => /\ ~(io_fails \/ encode_fails \/ other_fails)
                      /\ Get(r.fs.files, NewDirPath)
                            = <<JsonText(to_dict(wf), pretty)>>

\* an Export of a workflow that validates has failed on a value json cannot
\* encode, after the file was opened
C10_Witness ==
    /\ op = "Export"
    /\ err = SDKError("ExportError", EXPORT_SERIALIZATION_ERROR)
    /\ validate(wf) = <<>>
    /\ Has(fs.files, NewDirPath)

\* the text of the file at NewDirPath, written completely
Written(files) == Get(files, NewDirPath)[1]

\* C11: two successful Export calls in a row with the same path, pretty and
\* validate arguments, the second at the same or a later time, write
\* documents that are equal in every field but updatedAt, with the same
\* indentation.
C11_ExportIdempotent ==
    op = Idle =>
       \A pretty, validate_arg \in BOOLEAN : \A later \in clock..MaxClock :
          LET first == export(wf, fs, NewDirPath, pretty, validate_arg,
                              "none", clock)
              second == export(first.w, first.fs, NewDirPath, pretty,
                               validate_arg, "none", later)
              text1 == Written(first.fs.files)
              text2 == Written(second.fs.files)
          IN  (first.err = NoErr /\ second.err = NoErr)
                 => /\ text2.indent = text1.indent
                    /\ [text2.doc EXCEPT !.updatedAt = text1.doc.updatedAt]
                          = text1.doc

\* the workflow has no node, so nothing but a successful Export has set its
\* updated_at, and the document in the file carries that time: it was
\* written by a second successful Export
C11_Witness ==
    /\ op = "Export"
    /\ err = NoErr
    /\ nodes = <<>>
    /\ Has(fs.files, NewDirPath)
    /\ Get(fs.files, NewDirPath) # <<>>
    /\ Written(fs.files).doc.updatedAt # wf.created_at

\* C12: a successful Export leaves id, name, nodes, connections, active,
\* settings, tags and created_at of the workflow as they were and sets
\* updated_at to the time of the call.
C12_ExportFrame ==
    op = Idle =>
       \A pretty, validate_arg \in BOOLEAN : \A fault \in Faults :
          LET r == export(wf, fs, NewDirPath, pretty, validate_arg, fault,
                          clock)
          IN  r.err = NoErr
                 => /\ r.w.id = wf.id
                    /\ r.w.name = wf.name
                    /\ r.w.nodes = nodes
                    /\ r.w.connections = connections
                    /\ r.w.active = wf.active
                    /\ r.w.settings = wf.settings
                    /\ r.w.tags = wf.tags
                    /\ r.w.created_at = wf.created_at
                    /\ r.w.updated_at = clock
                    /\ DOMAIN r.w = DOMAIN wf

\* a workflow of two connected nodes was exported at a time later than its
\* last change: the document holds the old updated_at, the workflow the new
C12_Witness ==
    /\ op = "Export"
    /\ err = NoErr
    /\ Len(nodes) = 2
    /\ RecordCount(connections) >= 1
    /\ Has(fs.files, NewDirPath)
    /\ Get(fs.files, NewDirPath) # <<>>
    /\ Written(fs.files).doc.updatedAt # wf.updated_at
    /\ wf.created_at # wf.updated_at

\* the problems Validate() returns, as a set
Problems == Range(validate(wf))

\* what Validate() checks, one condition at a time, with the problem each
\* one contributes when it is violated
NameGiven == wf.name # <<>>
SomeNode == nodes # <<>>
IdsDistinct == \A i, j \in 1..Len(nodes) : nodes[i].id = nodes[j].id => i = j
NamesDistinct ==
    \A i, j \in 1..Len(nodes) : nodes[i].name = nodes[j].name => i = j
NodesValid == \A i \in 1..Len(nodes) : Node_validate(nodes[i]) = <<>>
SourcesExist == Keys(connections) \subseteq NodeNames
EachCheckReports ==
    /\ NameGiven <=> <<"Workflow name is required">> \notin Problems
    /\ SomeNode <=> <<"Workflow must contain at least one node">> \notin Problems
    /\ IdsDistinct <=> <<"Duplicate node IDs found">> \notin Problems
    /\ NamesDistinct <=> <<"Duplicate node names found">> \notin Problems
    /\ \A i \in 1..Len(nodes) :
          \A e \in Range(Node_validate(nodes[i])) :
              <<"Node", i, nodes[i].name, e>> \in Problems
    /\ \A key \in Keys(connections) :
          key \in NodeNames
             <=> <<"Connection source does not exist", key>> \notin Problems
    /\ \A x \in Records(connections) :
          "node" \in DOMAIN x =>
             (x.node \in NodeNames
                <=> <<"Connection target does not exist", x.node>>
                       \notin Problems)

C14_ValidateNeverRaises == op = "Validate" => err = NoErr

\* the entries of a document's nodes whose name or type is empty or absent
LacksRequired(entry) ==
    DGet(entry, "type", <<>>) = <<>> \/ DGet(entry, "name", <<>>) = <<>>
NamedDocs ==
    {data \in Docs : ~Blank(DGet(data, "name", ImportedWorkflow))}
DocEntries(data) == DGet(data, "nodes", <<>>)

C17_DuplicateNameTolerated ==
    /\ ~NamesDistinct => <<"Duplicate node names found">> \in Problems
    /\ op = Idle =>
          \A n \in GraphPool :
             (n.name \in NodeNames /\ ~InNodes(nodes, n))
                => LET r == add_node(wf, n, clock)
                   IN  /\ r.err = NoErr
                       /\ r.w.nodes = Append(nodes, n)
                       /\ <<"Duplicate node names found">>
                             \in Range(validate(r.w))

\* two nodes of one name and two ids were added and connected, and
\* Validate() was called after that
C17_Witness ==
    /\ op = "Validate"
    /\ Len(nodes) = 2
    /\ nodes[1].name = nodes[2].name
    /\ nodes[1].id # nodes[2].id
    /\ RecordCount(connections) >= 1
    /\ <<"Duplicate node names found">> \in Problems

\* the argument lists of add_nodes: up to three values, nodes that share
\* ids and names and a value that is no Node
NodeLists ==
    LET values == GraphPool \cup {NotANode}
    IN  {<<v>> : v \in values}
        \cup {<<v[1], v[2]>> : v \in values \X values}
        \cup {<<v[1], v[2], v[3]>> : v \in values \X values \X values}

NodeIdArgs == {NoneId, "", "i1"}

\* C19: Workflow(name) with an empty or all-whitespace name raises
\* WorkflowError WF001; Node(type, name) with an empty or all-whitespace
\* type raises NodeError ND001 whatever the name; with another type and an
\* empty or all-whitespace name it raises NodeError ND003; no object is
\* returned in any of these cases.
C19_BlankRequiredStrings ==
    op = Idle =>
       /\ \A name \in Blanks : \A workflow_id \in {NoneId, "wf2"} :
             LET r == WorkflowInit(name, workflow_id, Uuids[1], clock)
             IN  /\ ~r.ok /\ "w" \notin DOMAIN r
                 /\ r.err = SDKError("WorkflowError", WORKFLOW_INVALID_NAME)
       /\ \A node_type, name \in Texts : \A node_id \in NodeIdArgs :
             LET r == NodeInit(node_type, name, node_id, 1, <<>>, <<>>, <<>>,
                               Uuids[1])
             IN  /\ node_type \in Blanks
                      => /\ ~r.ok /\ "node" \notin DOMAIN r
                         /\ r.err = SDKError("NodeError", NODE_INVALID_TYPE)
                 /\ (node_type \notin Blanks /\ name \in Blanks)
                      => /\ ~r.ok /\ "node" \notin DOMAIN r
                         /\ r.err = SDKError("NodeError",
                                             NODE_MISSING_REQUIRED_FIELD)

\* Workflow("  ") was called on top of a loaded workflow: it raised WF001,
\* returned nothing and the caller still has the loaded workflow
C19_Witness ==
    /\ op = "Workflow"
    /\ err = SDKError("WorkflowError", WORKFLOW_INVALID_NAME)
    /\ made = <<>>
    /\ nodes # <<>>

\* C20: Node(type, name) with a type and a name that are not empty after
\* trimming and every other argument defaulted returns a node whose
\* validate() is empty and is_valid() true, with a non-empty id, position
\* [0, 0] and empty parameters and credentials.
C20_PlainNodeValid ==
    op = Idle =>
       \A node_type, name \in Texts \ Blanks :
          LET r == NodeInit(node_type, name, NoneId, 1, <<>>, <<>>, <<>>,
                            Uuids[1])
          IN  /\ r.ok /\ r.err = NoErr
              /\ Node_validate(r.node) = <<>>
              /\ Node_is_valid(r.node)
              /\ TruthyId(r.node.id)
              /\ r.node.position = <<0, 0>>
              /\ DOMAIN r.node.parameters = {}
              /\ DOMAIN r.node.credentials = {}

\* Node(" b", "c ") was called without an id and returned a valid node
\* with a generated id and trimmed strings
C20_Witness ==
    /\ op = "Node"
    /\ err = NoErr
    /\ made # <<>>
    /\ made[1].id = Uuids[1]
    /\ made[1].type = <<"b">>
    /\ made[1].name = <<"c">>
    /\ Node_is_valid(made[1])

\* C21: over any sequence of AddNode, Connect and Export calls, created_at
\* keeps the value set at construction, every successful AddNode, Connect
\* and Export sets updated_at to the time of that call, and, the clock
\* never going back, updated_at never decreases.
C21_Timestamps ==
    [][ /\ wf'.created_at = wf.created_at
        /\ (op' \in {"AddNode", "Connect", "Export"} /\ err' = NoErr)
              => wf'.updated_at = clock
        /\ wf'.updated_at >= wf.updated_at
        /\ clock' >= clock ]_vars

\* a connection was made at a time later than the construction
C21_Witness ==
    /\ op = "Connect"
    /\ err = NoErr
    /\ clock > wf.created_at
    /\ wf.updated_at = clock
    /\ RecordCount(connections) >= 1

\* the names of the node entries of a document
DocNames(data) ==
    IF data.t = "dict" /\ JHas(data, "nodes") /\ JGet(data, "nodes").t = "list"
    THEN {JGet(entry, "name").s :
             entry \in {e \in Range(JGet(data, "nodes").items) :
                           /\ e.t = "dict"
                           /\ JHas(e, "name")
                           /\ JGet(e, "name").t = "str"}}
    ELSE {}

\* the source entries of a document's connections whose value is a mapping
DocSources(data) ==
    IF /\ data.t = "dict"
       /\ JHas(data, "connections")
       /\ JGet(data, "connections").t = "dict"
    THEN {source \in Range(JGet(data, "connections").items) :
             source.v.t = "dict"}
    ELSE {}

\* the connection records of a document: the mappings in the slots of every
\* output type of every source
DocRecords(data) ==
    UNION {UNION {UNION {{r \in Range(group.items) : r.t = "dict"} :
                            group \in {g \in Range(port.v.items) :
                                          g.t = "list"}} :
                     port \in {p \in Range(source.v.items) : p.v.t = "list"}} :
              source \in DocSources(data)}

\* the value names a node of the document
NamesNode(value, data) == value.t = "str" /\ value.s \in DocNames(data)

\* C22: the structural checker raises ValueError for every document that
\* lacks the `connections` key or the `nodes` key, for every document whose
\* `connections` has a key that is not the name of a node, and for every
\* document in which the `node` target of some connection record is not the
\* name of a node of the document.
C22_CheckerRejects ==
    op = "validate_workflow_structure" =>
       LET data == made[1]
       IN (\/ data.t # "dict"
           \/ ~JHas(data, "connections")
           \/ ~JHas(data, "nodes")
           \/ /\ JGet(data, "connections").t = "dict"
              /\ \E i \in 1..Len(JGet(data, "connections").items) :
                    JGet(data, "connections").items[i].k
                       \notin DocNames(data)
           \/ \E r \in DocRecords(data) :
                 JHas(r, "node") /\ ~NamesNode(JGet(r, "node"), data))
             => err = ValueError

\* every "main" entry of the document is a sequence of sequences of
\* mappings, each with a `node` key that names a node
MainsWellFormed(data) ==
    \A source \in DocSources(data) :
       JHas(source.v, "main") =>
          /\ JGet(source.v, "main").t = "list"
          /\ \A group \in Range(JGet(source.v, "main").items) :
                /\ group.t = "list"
                /\ \A r \in Range(group.items) :
                      /\ r.t = "dict"
                      /\ JHas(r, "node")
                      /\ NamesNode(JGet(r, "node"), data)

\* C23: the structural checker fails unless the "main" entry of each
\* connections value, when present, is a sequence whose every element is a
\* sequence whose every element is a mapping with a `node` key naming a
\* node: a document it accepts has no "main" element that is not a sequence.
C23_MainIsSequenceOfSequences ==
    (op = "validate_workflow_structure" /\ err = NoErr)
       => MainsWellFormed(made[1])

\* the file passes path validation, JSON parsing and the structural check
Passes(fsys, path) ==
    /\ validate_file_path(fsys, path) = NoErr
    /\ read_json_file(fsys, path).ok
    /\ validate_workflow_structure(read_json_file(fsys, path).data) = NoErr

\* the passing files of the given name among those found, in their order
PassingNamed(fsys, json_files, name) ==
    {i \in 1..Len(json_files) :
        json_files[i][2] = name /\ Passes(fsys, json_files[i])}

\* C24 as claimed: the batch helper, given an existing directory, returns
\* normally whatever files it finds; every file found that passes the three
\* stages is a key of the result, by its name, mapped to its own parsed
\* document, and every entry belongs to a passing file.
C24_BatchKeepsEveryFile ==
    op = Idle =>
       \A pattern \in Patterns : \A recursive \in BOOLEAN :
          \A json_files \in Orders(Glob(fs, "in", pattern, recursive)) :
             LET r == process_workflow_directory(fs, "in", json_files)
             IN  /\ r.err = NoErr
                 /\ \A i \in 1..Len(json_files) :
                       Passes(fs, json_files[i]) =>
                          /\ Has(r.workflows, json_files[i][2])
                          /\ Get(r.workflows, json_files[i][2])
                                = read_json_file(fs, json_files[i]).data
                 /\ \A name \in Keys(r.workflows) :
                       PassingNamed(fs, json_files, name) # {}

\* C24: the batch helper, given an existing directory, returns normally
\* whatever files it finds; the keys of the result are exactly the names of
\* the files found that pass the three stages, and each key is mapped to
\* the parsed document of the passing file of that name that was found
\* last (the file itself when no other passing file has its name).
C24_BatchKeepsEveryName ==
    op = Idle =>
       \A pattern \in Patterns : \A recursive \in BOOLEAN :
          \A json_files \in Orders(Glob(fs, "in", pattern, recursive)) :
             LET r == process_workflow_directory(fs, "in", json_files)
             IN  /\ r.err = NoErr
                 /\ \A i \in 1..Len(json_files) :
                       Passes(fs, json_files[i]) =>
                          Has(r.workflows, json_files[i][2])
                 /\ \A name \in Keys(r.workflows) :
                       LET found == PassingNamed(fs, json_files, name)
                       IN  /\ found # {}
                           /\ \E last \in found :
                                 /\ \A i \in found : i <= last
                                 /\ Get(r.workflows, name)
                                       = read_json_file(
                                            fs, json_files[last]).data

\* a batch over the directory returned the one file that passes, b.JSON,
\* which only the pattern "*" finds, and left out c.txt, found by the same
\* pattern, which fails path validation
C24_Witness ==
    /\ op = "process_workflow_directory"
    /\ err = NoErr
    /\ Len(made) = 1
    /\ Keys(made[1]) = {"b.JSON"}
    /\ Has(fs.files, <<"in", "c.txt">>)
    /\ ~Passes(fs, <<"in", "c.txt">>)
    /\ Passes(fs, <<"in", "b.JSON">>)

\* C25: n >= 2 nodes with pairwise distinct ids and names were added to a
\* new workflow and connected in order, node i to node i+1, with the
\* default ports: Validate() is empty, Export with validate=true succeeds
\* and writes n node entries, and connections has exactly n keys, each of
\* the first n-1 nodes mapping "main" to one slot with one record that
\* targets its successor with type "main" and index 0, the last node
\* mapping to the placeholder {"main": [[]]}.
C25_LinearChain ==
    (/\ op = Idle
     /\ Len(nodes) >= 2
     /\ IdsDistinct
     /\ NamesDistinct
     /\ RecordCount(connections) = Len(nodes) - 1)
       => /\ validate(wf) = <<>>
          /\ \A pretty \in BOOLEAN :
                LET r == export(wf, fs, HerePath, pretty, TRUE, "none", clock)
                IN  /\ r.err = NoErr
                    /\ Len(Get(r.fs.files, HerePath)[1].doc.nodes)
                          = Len(nodes)
                    /\ Get(r.fs.files, HerePath)[1].doc.connections
                          = connections
          /\ Len(connections) = Len(nodes)
          /\ \A i \in 1..(Len(nodes) - 1) :
                /\ Has(connections, nodes[i].name)
                /\ Get(connections, nodes[i].name)
                      = <<[k |-> "main",
                           v |-> << <<[node |-> nodes[i + 1].name,
                                       type |-> "main",
                                       index |-> 0]>> >>]>>
          /\ Has(connections, nodes[Len(nodes)].name)
          /\ Get(connections, nodes[Len(nodes)].name) = MainPlaceholder

\* a chain of three was exported
C25_Witness ==
    /\ op = "Export"
    /\ err = NoErr
    /\ Len(nodes) = 3
    /\ NamesDistinct
    /\ RecordCount(connections) = 2
    /\ Len(connections) = 3
    /\ Has(fs.files, HerePath)
    /\ Len(Get(fs.files, HerePath)[1].doc.nodes) = 3
    /\ Get(fs.files, HerePath)[1].doc.connections = connections

\* every source, output type, slot and record of old is in new at the same
\* place
Kept(old, new) ==
    /\ Len(old) <= Len(new)
    /\ \A i \in 1..Len(old) :
          /\ new[i].k = old[i].k
          /\ Len(old[i].v) <= Len(new[i].v)
          /\ \A j \in 1..Len(old[i].v) :
                /\ new[i].v[j].k = old[i].v[j].k
                /\ Len(old[i].v[j].v) <= Len(new[i].v[j].v)
                /\ \A s \in 1..Len(old[i].v[j].v) :
                      /\ Len(old[i].v[j].v[s]) <= Len(new[i].v[j].v[s])
                      /\ SubSeq(new[i].v[j].v[s], 1, Len(old[i].v[j].v[s]))
                            = old[i].v[j].v[s]

\* C26: connections are append-only and not deduplicated.  Every successful
\* Connect adds exactly one record, whether or not an equal record is in
\* the slot already, and no step of any operation adds another, removes,
\* moves or changes a record; the workflow starting without records, their
\* number is the number of successful Connect calls.
C26_AppendOnly ==
    [][ /\ Kept(connections, connections')
        /\ RecordCount(connections')
              = RecordCount(connections)
                + (IF op' = "Connect" /\ err' = NoErr THEN 1 ELSE 0) ]_vars

\* the same Connect call was made twice: a slot holds two equal records
C26_Witness ==
    /\ op = "Connect"
    /\ err = NoErr
    /\ \E i \in 1..Len(connections) :
          \E j \in 1..Len(connections[i].v) :
             \E s \in 1..Len(connections[i].v[j].v) :
                /\ Len(connections[i].v[j].v[s]) = 2
                /\ connections[i].v[j].v[s][1] = connections[i].v[j].v[s][2]

\* C29: Connect is all-or-nothing for every argument combination: for any
\* two nodes and any integer output slot the call returns or raises, and
\* when it raises, connections and updated_at are as before the call, with
\* no new source entry, output type entry or empty slot.
C29_ConnectAllOrNothing ==
    [][ (op' = "Connect" /\ err' # NoErr)
           => /\ connections' = connections
              /\ wf'.updated_at = wf.updated_at ]_vars

\* C27: add_node reads nodes for its duplicate check and appends in a later
\* step, with no lock.  An append adds an id that nodes already holds only
\* when nodes has changed between the call's check and its append, which
\* calls that are serialised rule out; with two calls interleaved between
\* check and append a state with two nodes of one id is reached (the
\* witness).
C27_DuplicateOnlyWhenInterleaved ==
    [][ \A t \in Threads :
           (calls[t].pc = "append" /\ calls'[t].pc = "stamp"
               /\ nodes = calls[t].seen)
              => \A i \in 1..Len(nodes) : nodes[i].id # calls[t].node.id
      ]_vars

\* both calls have returned and nodes holds two nodes with the same id
C27_Witness ==
    /\ \A t \in Threads : calls[t] = NotCalling
    /\ Len(nodes) = 2
    /\ nodes[1].id = nodes[2].id

\* C28: Export refreshes updated_at only after the file was written: the
\* updatedAt of the document a successful Export writes is the workflow's
\* updated_at from before the call, and an Export that fails at any step
\* (validation, directory creation, opening, writing, encoding) leaves
\* updated_at, nodes and connections as they were.
C28_StampAfterWrite ==
    [][ op' = "Export" =>
           /\ err' = NoErr
                 => /\ Has(fs'.files, NewDirPath)
                    /\ Get(fs'.files, NewDirPath) # <<>>
                    /\ Written(fs'.files).doc.updatedAt = wf.updated_at
                    /\ wf'.updated_at = clock
           /\ err' # NoErr
                 => /\ wf'.updated_at = wf.updated_at
                    /\ wf'.nodes = nodes
                    /\ wf'.connections = connections ]_vars

\* an Export of a connected workflow failed while writing, at a time later
\* than the last change: the file is there, incomplete, and updated_at is
\* still the time of the last change
C28_Witness ==
    /\ op = "Export"
    /\ err = SDKError("ExportError", EXPORT_FILE_ERROR)
    /\ Has(fs.files, NewDirPath)
    /\ Get(fs.files, NewDirPath) = <<>>
    /\ RecordCount(connections) >= 1
    /\ wf.updated_at < clock

\* C30: to_dict and from_dict do not couple two workflows: with
\* w2 = from_dict(to_dict(w)), a later connect or add_node on w2 leaves the
\* connections and the nodes of w as they were, and a later connect on w
\* leaves the connections of w2 as they were.
C30_NoCoupling ==
    [][ /\ op' \in {"w2.connect", "w2.add_node"}
              => /\ wf'.connections = connections
                 /\ wf'.nodes = nodes
        /\ (op' = "Connect" /\ Len(twin) = 1)
              => twin'[1].w.connections = twin[1].w.connections ]_vars

====
